---- MODULE Spec2Model ----
(***************************************************************************)
(* Sorting visualiser core (native/src): the action-log generators        *)
(* (algorithms/bubble.rs, algorithms/merge.rs), the round-robin           *)
(* interleaver, and the replay Engine (engine.rs).                         *)
(*                                                                         *)
(* Indices carried by actions are 0-based as in the source; TLA+          *)
(* sequences are 1-based, so arr[i] of the source is arr[i + 1] here.      *)
(***************************************************************************)
EXTENDS Integers, Sequences, FiniteSets, Bags, TLC

\* The Engine's fields (engine.rs: struct Engine)
VARIABLES
    bars,               \* Vec<Bar>: [value, state]
    actions,            \* Vec<Action>
    cursor,
    max_value,
    comparisons,
    operations,
    current_memory,
    peak_memory,
    time_elapsed,
    step_timer,
    current_animation,  \* AnimationInfo
    temp_array,         \* TempArrayState (Sequential mode)
    multi_temp_arrays,  \* MultiTempArrayState (Parallel mode)
    mode,
    num_threads,
    initial_values,
    merge_level,
    \* Harness of the pure functions: the call made, its arguments, its result.
    fn_call,
    fn_values,
    fn_threads,
    fn_logs,
    fn_result

\* ------------------------------------------------------------------ bounds
\* Longest input sequence of an Engine (the host constructs Engine::new(12)).
MaxLen == 4
\* The generators are called on up to MaxFnLen values of 1..MaxVal (the source
\* draws 1..=1000).
MaxFnLen == 5
MaxVal == 3
\* The interleaver is called on up to MaxLogs logs of up to MaxLogLen actions.
MaxLogs == 3
MaxLogLen == 3
\* Engine::step is also run on arbitrary logs of up to MaxFaultLen actions.
MaxFaultLen == 2

\* --------------------------------------------------------- program constants
\* merge.rs: const ELEMENT_SIZE: usize = 4
ELEMENT_SIZE == 4
\* engine.rs, Engine::new: let num_threads = 8
NUM_THREADS == 8

\* Inputs of the generators
Values == 1..MaxVal
Inputs == UNION {[1..n -> Values] : n \in 0..MaxFnLen}
\* The inputs of the documented scenarios
Scenarios == {<<7>>, <<5, 3>>, <<4, 2, 3, 1>>}

\* The Engine's rng draws (rng.gen_range(1..=1000)) are taken from two values,
\* so that every draw of every reset is explored.
DrawValues == {1, 2}
Draws(n) == [1..n -> DrawValues]
EngineInputs == UNION {Draws(n) : n \in 0..MaxLen}

Min(a, b) == IF a < b THEN a ELSE b
Max(a, b) == IF a > b THEN a ELSE b

\* ------------------------------------------------------------------ actions
\* engine.rs: enum ActionKind
ActionKind == {"Compare", "Swap", "Write", "TempPush", "TempClear", "MergePhase", "Done"}

\* engine.rs: struct Action
Action(kind, i, j, value, memory, temp_idx, thread_id) ==
    [kind |-> kind, i |-> i, j |-> j, value |-> value, memory |-> memory,
     temp_idx |-> temp_idx, thread_id |-> thread_id]

\* slice::swap(i, j) on a 0-based index pair
swap(arr, i, j) == [arr EXCEPT ![i + 1] = arr[j + 1], ![j + 1] = arr[i + 1]]

\* ------------------------------------------------------------- bubble.rs
\* The inner loop with a fault: equal neighbours are swapped too
RECURSIVE bubble_inner_swaps_equal(_, _, _, _)
bubble_inner_swaps_equal(st, n, i, j) ==
    IF j >= n - 1 - i THEN st
    ELSE LET compared == Append(st.actions, Action("Compare", j, j + 1, 0, 0, 0, 0))
         IN IF st.arr[j + 1] >= st.arr[j + 2]
            THEN bubble_inner_swaps_equal(
                     [arr |-> swap(st.arr, j, j + 1),
                      actions |-> Append(compared, Action("Swap", j, j + 1, 0, 0, 0, 0))],
                     n, i, j + 1)
            ELSE bubble_inner_swaps_equal([arr |-> st.arr, actions |-> compared],
                                          n, i, j + 1)

\* for j in 0..(n - 1 - i): st = [arr, actions]
RECURSIVE bubble_inner(_, _, _, _)
bubble_inner(st, n, i, j) ==
    IF j >= n - 1 - i THEN st
    ELSE LET compared == Append(st.actions, Action("Compare", j, j + 1, 0, 0, 0, 0))
         IN IF st.arr[j + 1] > st.arr[j + 2]
            THEN bubble_inner([arr |-> swap(st.arr, j, j + 1),
                               actions |-> Append(compared,
                                                  Action("Swap", j, j + 1, 0, 0, 0, 0))],
                              n, i, j + 1)
            ELSE bubble_inner([arr |-> st.arr, actions |-> compared], n, i, j + 1)

\* The outer loop with a fault: the settle marker carries the value that
\* held its index before the pass
RECURSIVE bubble_outer_marker_stale_value(_, _, _)
bubble_outer_marker_stale_value(st, n, i) ==
    IF i >= n THEN st
    ELSE LET pass == bubble_inner(st, n, i, 0)
         IN bubble_outer_marker_stale_value(
                [arr |-> pass.arr,
                 actions |-> Append(pass.actions,
                                    Action("Done", n - 1 - i, n - 1 - i,
                                           st.arr[n - i], 0, 0, 0))],
                n, i + 1)

\* The outer loop with a fault: the settle marker of pass i carries n - i
RECURSIVE bubble_outer_marker_off_by_one(_, _, _)
bubble_outer_marker_off_by_one(st, n, i) ==
    IF i >= n THEN st
    ELSE LET pass == bubble_inner(st, n, i, 0)
         IN bubble_outer_marker_off_by_one(
                [arr |-> pass.arr,
                 actions |-> Append(pass.actions,
                                    Action("Done", n - i, n - i, pass.arr[n - i], 0, 0, 0))],
                n, i + 1)

\* for i in 0..n: one pass, then the settle marker (kind Done) of index n-1-i
RECURSIVE bubble_outer(_, _, _)
bubble_outer(st, n, i) ==
    IF i >= n THEN st
    ELSE LET pass == bubble_inner(st, n, i, 0)
         IN bubble_outer([arr |-> pass.arr,
                          actions |-> Append(pass.actions,
                                             Action("Done", n - 1 - i, n - 1 - i,
                                                    pass.arr[n - i], 0, 0, 0))],
                         n, i + 1)

bubble_sort_actions(values) ==
    bubble_outer([arr |-> values, actions |-> <<>>], Len(values), 0).actions

\* -------------------------------------------------------------- merge.rs
\* The three merge routines of merge.rs (merge, parallel_merge_chunk,
\* parallel_merge) run the same four loops; global_offset is 0 except in
\* parallel_merge_chunk, whose arr is the chunk copy.
\* Loop state ls = [actions, temp, i, j, temp_idx].

\* The compare loop with a fault: on equal heads the right head is taken
RECURSIVE merge_compare_loop_ties_right(_, _, _, _, _, _, _)
merge_compare_loop_ties_right(arr, ls, mid, right, memory, thread_id, global_offset) ==
    IF ~(ls.i < mid /\ ls.j < right) THEN ls
    ELSE LET compared == Append(ls.actions,
                                Action("Compare", global_offset + ls.i,
                                       global_offset + ls.j, 0, memory, 0, thread_id))
         IN IF arr[ls.i + 1] < arr[ls.j + 1]
            THEN merge_compare_loop_ties_right(arr,
                     [actions |-> Append(compared,
                                         Action("TempPush", global_offset + ls.i, 0,
                                                arr[ls.i + 1], memory, ls.temp_idx,
                                                thread_id)),
                      temp |-> Append(ls.temp, arr[ls.i + 1]),
                      i |-> ls.i + 1, j |-> ls.j, temp_idx |-> ls.temp_idx + 1],
                     mid, right, memory, thread_id, global_offset)
            ELSE merge_compare_loop_ties_right(arr,
                     [actions |-> Append(compared,
                                         Action("TempPush", global_offset + ls.j, 0,
                                                arr[ls.j + 1], memory, ls.temp_idx,
                                                thread_id)),
                      temp |-> Append(ls.temp, arr[ls.j + 1]),
                      i |-> ls.i, j |-> ls.j + 1, temp_idx |-> ls.temp_idx + 1],
                     mid, right, memory, thread_id, global_offset)

\* while i < mid && j < right
RECURSIVE merge_compare_loop(_, _, _, _, _, _, _)
merge_compare_loop(arr, ls, mid, right, memory, thread_id, global_offset) ==
    IF ~(ls.i < mid /\ ls.j < right) THEN ls
    ELSE LET compared == Append(ls.actions,
                                Action("Compare", global_offset + ls.i,
                                       global_offset + ls.j, 0, memory, 0, thread_id))
         IN IF arr[ls.i + 1] <= arr[ls.j + 1]
            THEN merge_compare_loop(arr,
                     [actions |-> Append(compared,
                                         Action("TempPush", global_offset + ls.i, 0,
                                                arr[ls.i + 1], memory, ls.temp_idx,
                                                thread_id)),
                      temp |-> Append(ls.temp, arr[ls.i + 1]),
                      i |-> ls.i + 1, j |-> ls.j, temp_idx |-> ls.temp_idx + 1],
                     mid, right, memory, thread_id, global_offset)
            ELSE merge_compare_loop(arr,
                     [actions |-> Append(compared,
                                         Action("TempPush", global_offset + ls.j, 0,
                                                arr[ls.j + 1], memory, ls.temp_idx,
                                                thread_id)),
                      temp |-> Append(ls.temp, arr[ls.j + 1]),
                      i |-> ls.i, j |-> ls.j + 1, temp_idx |-> ls.temp_idx + 1],
                     mid, right, memory, thread_id, global_offset)

\* while i < mid
RECURSIVE merge_drain_left(_, _, _, _, _, _)
merge_drain_left(arr, ls, mid, memory, thread_id, global_offset) ==
    IF ~(ls.i < mid) THEN ls
    ELSE merge_drain_left(arr,
             [actions |-> Append(ls.actions,
                                 Action("TempPush", global_offset + ls.i, 0,
                                        arr[ls.i + 1], memory, ls.temp_idx, thread_id)),
              temp |-> Append(ls.temp, arr[ls.i + 1]),
              i |-> ls.i + 1, j |-> ls.j, temp_idx |-> ls.temp_idx + 1],
             mid, memory, thread_id, global_offset)

\* while j < right
RECURSIVE merge_drain_right(_, _, _, _, _, _)
merge_drain_right(arr, ls, right, memory, thread_id, global_offset) ==
    IF ~(ls.j < right) THEN ls
    ELSE merge_drain_right(arr,
             [actions |-> Append(ls.actions,
                                 Action("TempPush", global_offset + ls.j, 0,
                                        arr[ls.j + 1], memory, ls.temp_idx, thread_id)),
              temp |-> Append(ls.temp, arr[ls.j + 1]),
              i |-> ls.i, j |-> ls.j + 1, temp_idx |-> ls.temp_idx + 1],
             right, memory, thread_id, global_offset)

\* The write-back with a fault: every Write stores the first pushed value
RECURSIVE merge_write_back_repeats_first(_, _, _, _, _, _, _)
merge_write_back_repeats_first(ws, temp, k, left, memory, thread_id, global_offset) ==
    IF k >= Len(temp) THEN ws
    ELSE merge_write_back_repeats_first(
             [arr |-> [ws.arr EXCEPT ![left + k + 1] = temp[1]],
              actions |-> Append(ws.actions,
                                 Action("Write", global_offset + left + k, 0,
                                        temp[1], memory, 0, thread_id))],
             temp, k + 1, left, memory, thread_id, global_offset)

\* for (k, val) in temp.iter().enumerate(): ws = [arr, actions]
RECURSIVE merge_write_back(_, _, _, _, _, _, _)
merge_write_back(ws, temp, k, left, memory, thread_id, global_offset) ==
    IF k >= Len(temp) THEN ws
    ELSE merge_write_back(
             [arr |-> [ws.arr EXCEPT ![left + k + 1] = temp[k + 1]],
              actions |-> Append(ws.actions,
                                 Action("Write", global_offset + left + k, 0,
                                        temp[k + 1], memory, 0, thread_id))],
             temp, k + 1, left, memory, thread_id, global_offset)

\* The body shared by the three merge routines: st = [arr, actions, current_memory]
merge_body(st, left, mid, right, thread_id, global_offset) ==
    LET temp_size == right - left
        temp_bytes == temp_size * ELEMENT_SIZE
        memory == st.current_memory + temp_bytes
        l0 == [actions |-> st.actions, temp |-> <<>>, i |-> left, j |-> mid,
               temp_idx |-> 0]
        l1 == merge_compare_loop(st.arr, l0, mid, right, memory, thread_id, global_offset)
        l2 == merge_drain_left(st.arr, l1, mid, memory, thread_id, global_offset)
        l3 == merge_drain_right(st.arr, l2, right, memory, thread_id, global_offset)
        w == merge_write_back([arr |-> st.arr, actions |-> l3.actions], l3.temp, 0,
                              left, memory, thread_id, global_offset)
    IN [arr |-> w.arr,
        actions |-> Append(w.actions, Action("TempClear", 0, 0, 0, memory, 0, thread_id)),
        current_memory |-> memory - temp_bytes]

\* merge with a fault: the left run is taken to be empty, so nothing is merged
merge_left_run_lost(st, left, mid, right, thread_id) ==
    merge_body(st, left, left, right, thread_id, 0)

\* merge with a fault: the scratch bytes are not subtracted at the end
merge_keeps_memory(st, left, mid, right, thread_id) ==
    [merge_body(st, left, mid, right, thread_id, 0)
        EXCEPT !.current_memory = st.current_memory + (right - left) * ELEMENT_SIZE]

\* fn merge
merge(st, left, mid, right, thread_id) ==
    merge_body(st, left, mid, right, thread_id, 0)

\* The recursion with a fault: a run of one value is merged with an empty run
RECURSIVE merge_sort_recursive_merges_single(_, _, _, _)
merge_sort_recursive_merges_single(st, left, right, thread_id) ==
    IF right - left <= 1
    THEN IF right - left = 1 THEN merge(st, left, left, right, thread_id) ELSE st
    ELSE LET mid == left + (right - left) \div 2
             s1 == merge_sort_recursive_merges_single(st, left, mid, thread_id)
             s2 == merge_sort_recursive_merges_single(s1, mid, right, thread_id)
         IN merge(s2, left, mid, right, thread_id)

RECURSIVE merge_sort_recursive(_, _, _, _)
merge_sort_recursive(st, left, right, thread_id) ==
    IF right - left <= 1 THEN st
    ELSE LET mid == left + (right - left) \div 2
             s1 == merge_sort_recursive(st, left, mid, thread_id)
             s2 == merge_sort_recursive(s1, mid, right, thread_id)
         IN merge(s2, left, mid, right, thread_id)

DoneAction == Action("Done", 0, 0, 0, 0, 0, 0)

\* merge_sort_actions with a fault: the final Done is not pushed
merge_sort_actions_no_done(values) ==
    merge_sort_recursive([arr |-> values, actions |-> <<>>, current_memory |-> 0],
                         0, Len(values), 0).actions

merge_sort_actions(values) ==
    Append(merge_sort_recursive([arr |-> values, actions |-> <<>>, current_memory |-> 0],
                                0, Len(values), 0).actions,
           DoneAction)

\* parallel_merge_chunk with a fault: the actions carry the indices of the
\* chunk copy
parallel_merge_chunk_local_indices(st, left, mid, right, global_offset, thread_id) ==
    merge_body(st, left, mid, right, thread_id, 0)

\* fn parallel_merge_chunk: arr is the chunk copy, indices are local
parallel_merge_chunk(st, left, mid, right, global_offset, thread_id) ==
    merge_body(st, left, mid, right, thread_id, global_offset)

RECURSIVE parallel_merge_sort_chunk_recursive(_, _, _, _, _)
parallel_merge_sort_chunk_recursive(st, left, right, global_offset, thread_id) ==
    IF right - left <= 1 THEN st
    ELSE LET mid == left + (right - left) \div 2
             s1 == parallel_merge_sort_chunk_recursive(st, left, mid, global_offset,
                                                       thread_id)
             s2 == parallel_merge_sort_chunk_recursive(s1, mid, right, global_offset,
                                                       thread_id)
         IN parallel_merge_chunk(s2, left, mid, right, global_offset, thread_id)

\* parallel_merge_sort_chunk with a fault: a chunk of two values is left as
\* it is
parallel_merge_sort_chunk_skips_pairs(st, global_offset, thread_id) ==
    IF Len(st.arr) <= 2 THEN st
    ELSE parallel_merge_sort_chunk_recursive(st, 0, Len(st.arr), global_offset, thread_id)

parallel_merge_sort_chunk(st, global_offset, thread_id) ==
    IF Len(st.arr) <= 1 THEN st
    ELSE parallel_merge_sort_chunk_recursive(st, 0, Len(st.arr), global_offset, thread_id)

\* fn parallel_merge: merges arr[left..mid] with arr[mid..right] in place
parallel_merge(st, left, mid, right, thread_id) ==
    merge_body(st, left, mid, right, thread_id, 0)

\* One pass of the interleaver's inner for loop over the logs:
\* s = [result, indices, any_remaining]; thread_idx is 0-based.
RECURSIVE interleave_pass(_, _, _)
interleave_pass(s, thread_actions, thread_idx) ==
    IF thread_idx >= Len(thread_actions) THEN s
    ELSE IF s.indices[thread_idx + 1] < Len(thread_actions[thread_idx + 1])
         THEN interleave_pass(
                  [result |-> Append(s.result,
                                     thread_actions[thread_idx + 1][s.indices[thread_idx + 1] + 1]),
                   indices |-> [s.indices EXCEPT ![thread_idx + 1] = @ + 1],
                   any_remaining |-> TRUE],
                  thread_actions, thread_idx + 1)
         ELSE interleave_pass(s, thread_actions, thread_idx + 1)

\* loop { ... if !any_remaining { break; } }
RECURSIVE interleave_loop(_, _)
interleave_loop(s, thread_actions) ==
    LET p == interleave_pass([s EXCEPT !.any_remaining = FALSE], thread_actions, 0)
    IN IF ~p.any_remaining THEN p.result ELSE interleave_loop(p, thread_actions)

\* interleave_actions with a fault: the indices start at 1, so the first action
\* of every log is skipped
interleave_actions_skip_first(thread_actions) ==
    interleave_loop([result |-> <<>>,
                     indices |-> [k \in 1..Len(thread_actions) |-> 1],
                     any_remaining |-> FALSE],
                    thread_actions)

\* interleave_actions with a fault: the logs are appended one after another
RECURSIVE interleave_actions_log_by_log(_)
interleave_actions_log_by_log(thread_actions) ==
    IF thread_actions = <<>> THEN <<>>
    ELSE Head(thread_actions) \o interleave_actions_log_by_log(Tail(thread_actions))

interleave_actions(thread_actions) ==
    interleave_loop([result |-> <<>>,
                     indices |-> [k \in 1..Len(thread_actions) |-> 0],
                     any_remaining |-> FALSE],
                    thread_actions)

\* Phase 1 with a fault: every chunk is sorted under the task id 0
RECURSIVE chunk_loop_one_task(_, _, _, _, _)
chunk_loop_one_task(ps, thread_id, nthreads, chunk_size, n) ==
    IF thread_id >= nthreads THEN ps
    ELSE LET start == thread_id * chunk_size
             end == Min(start + chunk_size, n)
         IN IF start >= n
            THEN chunk_loop_one_task([arr |-> ps.arr,
                                      thread_actions |-> Append(ps.thread_actions, <<>>)],
                                     thread_id + 1, nthreads, chunk_size, n)
            ELSE LET chunk == SubSeq(ps.arr, start + 1, end)
                     sorted == parallel_merge_sort_chunk(
                                   [arr |-> chunk, actions |-> <<>>, current_memory |-> 0],
                                   start, 0)
                 IN chunk_loop_one_task(
                        [arr |-> [k \in 1..Len(ps.arr) |->
                                     IF k > start /\ k <= end THEN sorted.arr[k - start]
                                     ELSE ps.arr[k]],
                         thread_actions |-> Append(ps.thread_actions, sorted.actions)],
                        thread_id + 1, nthreads, chunk_size, n)

\* Phase 1, for thread_id in 0..nthreads: ps = [arr, thread_actions]
RECURSIVE chunk_loop(_, _, _, _, _)
chunk_loop(ps, thread_id, nthreads, chunk_size, n) ==
    IF thread_id >= nthreads THEN ps
    ELSE LET start == thread_id * chunk_size
             end == Min(start + chunk_size, n)
         IN IF start >= n
            THEN chunk_loop([arr |-> ps.arr,
                             thread_actions |-> Append(ps.thread_actions, <<>>)],
                            thread_id + 1, nthreads, chunk_size, n)
            ELSE LET chunk == SubSeq(ps.arr, start + 1, end)
                     sorted == parallel_merge_sort_chunk(
                                   [arr |-> chunk, actions |-> <<>>, current_memory |-> 0],
                                   start, thread_id)
                 IN chunk_loop(
                        [arr |-> [k \in 1..Len(ps.arr) |->
                                     IF k > start /\ k <= end THEN sorted.arr[k - start]
                                     ELSE ps.arr[k]],
                         thread_actions |-> Append(ps.thread_actions, sorted.actions)],
                        thread_id + 1, nthreads, chunk_size, n)

\* The round with a fault: every merge task of the round is tagged task 0
RECURSIVE round_loop_one_task(_, _, _, _, _)
round_loop_one_task(rs, left, step, n, nthreads) ==
    IF left >= n THEN rs
    ELSE LET mid == Min(left + step, n)
             right == Min(left + 2 * step, n)
         IN IF mid < right
            THEN LET m == parallel_merge(
                              [arr |-> rs.arr, actions |-> <<>>, current_memory |-> 0],
                              left, mid, right, 0)
                 IN round_loop_one_task([arr |-> m.arr,
                                         merge_thread_actions |->
                                             Append(rs.merge_thread_actions, m.actions),
                                         thread_id |-> rs.thread_id + 1],
                                        left + 2 * step, step, n, nthreads)
            ELSE round_loop_one_task(rs, left + 2 * step, step, n, nthreads)

\* One tournament round, while left < n: rs = [arr, merge_thread_actions, thread_id]
RECURSIVE round_loop(_, _, _, _, _)
round_loop(rs, left, step, n, nthreads) ==
    IF left >= n THEN rs
    ELSE LET mid == Min(left + step, n)
             right == Min(left + 2 * step, n)
         IN IF mid < right
            THEN LET m == parallel_merge(
                              [arr |-> rs.arr, actions |-> <<>>, current_memory |-> 0],
                              left, mid, right, rs.thread_id % nthreads)
                 IN round_loop([arr |-> m.arr,
                                merge_thread_actions |->
                                    Append(rs.merge_thread_actions, m.actions),
                                thread_id |-> rs.thread_id + 1],
                               left + 2 * step, step, n, nthreads)
            ELSE round_loop(rs, left + 2 * step, step, n, nthreads)

\* The tournament with a fault: the MergePhase marker is pushed after the
\* merges of its round
RECURSIVE tournament_loop_marker_last(_, _, _, _, _)
tournament_loop_marker_last(ts, step, level, n, nthreads) ==
    IF step >= n THEN ts
    ELSE LET round == round_loop([arr |-> ts.arr, merge_thread_actions |-> <<>>,
                                  thread_id |-> 0],
                                 0, step, n, nthreads)
         IN tournament_loop_marker_last(
                [arr |-> round.arr,
                 interleaved |-> Append(ts.interleaved \o
                                            interleave_actions(round.merge_thread_actions),
                                        Action("MergePhase", 0, 0, level, 0, 0, 0))],
                step * 2, level + 1, n, nthreads)

\* Phase 2, while step < n: ts = [arr, interleaved]
RECURSIVE tournament_loop(_, _, _, _, _)
tournament_loop(ts, step, level, n, nthreads) ==
    IF step >= n THEN ts
    ELSE LET marked == Append(ts.interleaved,
                              Action("MergePhase", 0, 0, level, 0, 0, 0))
             round == round_loop([arr |-> ts.arr, merge_thread_actions |-> <<>>,
                                  thread_id |-> 0],
                                 0, step, n, nthreads)
         IN tournament_loop(
                [arr |-> round.arr,
                 interleaved |-> marked \o interleave_actions(round.merge_thread_actions)],
                step * 2, level + 1, n, nthreads)

\* parallel_merge_sort_actions with a fault: never fewer than two tasks
parallel_merge_sort_actions_two_tasks(values, requested_threads) ==
    LET n == Len(values)
    IN IF n = 0 THEN <<DoneAction>>
       ELSE LET nthreads == Max(Min(requested_threads, n), 2)
                chunk_size == (n + nthreads - 1) \div nthreads
                phase1 == chunk_loop([arr |-> values, thread_actions |-> <<>>],
                                     0, nthreads, chunk_size, n)
                interleaved == interleave_actions(phase1.thread_actions)
                phase2 == tournament_loop([arr |-> phase1.arr,
                                           interleaved |-> interleaved],
                                          chunk_size, 1, n, nthreads)
            IN Append(phase2.interleaved, DoneAction)

parallel_merge_sort_actions(values, requested_threads) ==
    LET n == Len(values)
    IN IF n = 0 THEN <<DoneAction>>
       ELSE LET nthreads == Max(Min(requested_threads, n), 1)
                chunk_size == (n + nthreads - 1) \div nthreads
                phase1 == chunk_loop([arr |-> values, thread_actions |-> <<>>],
                                     0, nthreads, chunk_size, n)
                interleaved == interleave_actions(phase1.thread_actions)
                phase2 == tournament_loop([arr |-> phase1.arr,
                                           interleaved |-> interleaved],
                                          chunk_size, 1, n, nthreads)
            IN Append(phase2.interleaved, DoneAction)

\* ------------------------------------------------------------- engine.rs
\* enum SortMode
SortMode == {"Sequential", "Parallel"}

\* Engine::new: step_delay: 1.0 (seconds). Time is counted in half seconds,
\* so the step interval is 2 units.
STEP_DELAY == 2
\* The elapsed-time deltas of a tick, in the same unit: half an interval,
\* and one and a half intervals (two whole intervals after a short tick).
Deltas == {1, 3}

engine_vars == <<bars, actions, cursor, max_value, comparisons, operations,
                 current_memory, peak_memory, time_elapsed, step_timer,
                 current_animation, temp_array, multi_temp_arrays, mode, num_threads,
                 initial_values, merge_level>>
fn_vars == <<fn_call, fn_values, fn_threads, fn_logs, fn_result>>
vars == <<engine_vars, fn_vars>>

\* BarState::Thread0 .. Thread7
ThreadStates == <<"Thread0", "Thread1", "Thread2", "Thread3",
                  "Thread4", "Thread5", "Thread6", "Thread7">>

\* BarState::from_thread_id
from_thread_id(thread_id) ==
    IF thread_id < 8 THEN ThreadStates[thread_id + 1] ELSE "Thread0"

\* AnimationInfo::default(); source_height (value / max_value) is kept as the
\* pair <<value, max_value>>
AnimationInfo_default ==
    [active |-> FALSE, source_idx |-> 0, target_idx |-> 0, source_height |-> <<0, 1>>,
     is_temp_push |-> FALSE, temp_target_idx |-> 0, thread_id |-> 0]

\* TempArrayState::default()
TempArrayState_default == [values |-> <<>>, left_bound |-> 0, right_bound |-> 0]

\* MultiTempArrayState::new
MultiTempArrayState_new(n) == [arrays |-> [k \in 1..n |-> TempArrayState_default]]

\* MultiTempArrayState::clear_all
clear_all(m) == [arrays |-> [k \in 1..Len(m.arrays) |->
                                [m.arrays[k] EXCEPT !.values = <<>>]]]

RECURSIVE SumLens(_, _)
SumLens(arrays, k) ==
    IF k > Len(arrays) THEN 0 ELSE Len(arrays[k].values) * 4 + SumLens(arrays, k + 1)

\* MultiTempArrayState::total_memory
total_memory(m) == SumLens(m.arrays, 1)

RECURSIVE SeqMax(_, _, _)
SeqMax(s, k, acc) ==
    IF k > Len(s) THEN acc ELSE SeqMax(s, k + 1, IF s[k] > acc THEN s[k] ELSE acc)

\* values.iter().copied().max().unwrap_or(1)
max_of_values(values) == IF Len(values) = 0 THEN 1 ELSE SeqMax(values, 1, 0)

\* actions.iter().map(|a| a.memory).max().unwrap_or(0)
max_memory(log) == SeqMax([k \in 1..Len(log) |-> log[k].memory], 1, 0)

\* regenerate_actions, reset: "Generate actions based on mode"
generate(m, values, threads) ==
    IF m = "Sequential" THEN merge_sort_actions(values)
    ELSE parallel_merge_sort_actions(values, threads)

\* The log and its largest reported memory for every input the Engine can
\* draw, evaluated once
Generated ==
    [p \in SortMode \X EngineInputs |->
        LET log == generate(p[1], p[2], NUM_THREADS)
        IN [actions |-> log, peak_memory |-> max_memory(log)]] @@ <<>>

actions_for(m, values, threads) ==
    IF threads = NUM_THREADS
    THEN Generated[<<m, values>>].actions
    ELSE generate(m, values, threads)

\* peak_for without the scan of the log: the peak starts at zero
peak_for_unscanned(m, values, threads) == 0

\* self.actions.iter().map(|a| a.memory).max().unwrap_or(0) of that log
peak_for(m, values, threads) ==
    IF threads = NUM_THREADS
    THEN Generated[<<m, values>>].peak_memory
    ELSE max_memory(generate(m, values, threads))

idle_bars(values) == [k \in 1..Len(values) |-> [value |-> values[k], state |-> "Idle"]]

\* Engine::mark
mark(bs, idx, state) ==
    IF idx < Len(bs) /\ bs[idx + 1].state # "Sorted"
    THEN [bs EXCEPT ![idx + 1].state = state]
    ELSE bs

fn_idle ==
    /\ fn_call = "none"
    /\ fn_values = <<>>
    /\ fn_threads = 0
    /\ fn_logs = <<>>
    /\ fn_result = <<>>

\* Engine::new(size) when the rng draws `values`
engine_new(values) ==
    /\ initial_values = values
    /\ max_value = max_of_values(values)
    /\ mode = "Sequential"
    /\ num_threads = NUM_THREADS
    /\ actions = actions_for("Sequential", values, NUM_THREADS)
    /\ peak_memory = peak_for("Sequential", values, NUM_THREADS)
    /\ bars = idle_bars(values)
    /\ cursor = 0
    /\ comparisons = 0
    /\ operations = 0
    /\ current_memory = 0
    /\ time_elapsed = 0
    /\ step_timer = 0
    /\ current_animation = AnimationInfo_default
    /\ temp_array = TempArrayState_default
    /\ multi_temp_arrays = MultiTempArrayState_new(NUM_THREADS)
    /\ merge_level = 0

\* Engine::new(size), size in 0..MaxLen
Init ==
    /\ \E values \in EngineInputs : engine_new(values)
    /\ fn_idle

\* regenerate_actions generating from the live Bar values instead of the stored
\* initial values
regenerate_actions_from_bars(new_mode) ==
    /\ cursor' = 0
    /\ comparisons' = 0
    /\ operations' = 0
    /\ current_memory' = 0
    /\ time_elapsed' = 0
    /\ step_timer' = 0
    /\ current_animation' = AnimationInfo_default
    /\ temp_array' = TempArrayState_default
    /\ multi_temp_arrays' = MultiTempArrayState_new(num_threads)
    /\ merge_level' = 0
    /\ bars' = [k \in 1..Len(bars) |->
                   IF k <= Len(initial_values)
                   THEN [value |-> initial_values[k], state |-> "Idle"]
                   ELSE bars[k]]
    /\ actions' = actions_for(new_mode, [k \in 1..Len(bars) |-> bars[k].value],
                              num_threads)
    /\ peak_memory' = peak_for(new_mode, [k \in 1..Len(bars) |-> bars[k].value],
                               num_threads)

\* Engine::regenerate_actions, called by set_mode after the mode is stored
regenerate_actions(new_mode) ==
    /\ cursor' = 0
    /\ comparisons' = 0
    /\ operations' = 0
    /\ current_memory' = 0
    /\ time_elapsed' = 0
    /\ step_timer' = 0
    /\ current_animation' = AnimationInfo_default
    /\ temp_array' = TempArrayState_default
    /\ multi_temp_arrays' = MultiTempArrayState_new(num_threads)
    /\ merge_level' = 0
    /\ bars' = [k \in 1..Len(bars) |->
                   IF k <= Len(initial_values)
                   THEN [value |-> initial_values[k], state |-> "Idle"]
                   ELSE bars[k]]
    /\ actions' = actions_for(new_mode, initial_values, num_threads)
    /\ peak_memory' = peak_for(new_mode, initial_values, num_threads)

\* set_mode installing the new mode and its log without the reset of the
\* replay state
set_mode_keeps_replay(m) ==
    /\ IF mode # m
       THEN /\ mode' = m
            /\ actions' = actions_for(m, initial_values, num_threads)
            /\ peak_memory' = peak_for(m, initial_values, num_threads)
            /\ UNCHANGED <<bars, cursor, comparisons, operations, current_memory,
                           time_elapsed, step_timer, current_animation, temp_array,
                           multi_temp_arrays, merge_level>>
            /\ UNCHANGED <<max_value, num_threads, initial_values>>
       ELSE UNCHANGED engine_vars
    /\ UNCHANGED fn_vars

\* set_mode regenerating without comparing the mode
set_mode_always_regenerates(m) ==
    /\ mode' = m
    /\ regenerate_actions(m)
    /\ UNCHANGED <<max_value, num_threads, initial_values>>
    /\ UNCHANGED fn_vars

\* Engine::set_mode
set_mode(m) ==
    /\ IF mode # m
       THEN /\ mode' = m
            /\ regenerate_actions(m)
            /\ UNCHANGED <<max_value, num_threads, initial_values>>
       ELSE UNCHANGED engine_vars
    /\ UNCHANGED fn_vars

\* Engine::reset: values are the size fresh draws of the rng
reset ==
    /\ \E values \in Draws(Len(bars)) :
        /\ max_value' = max_of_values(values)
        /\ initial_values' = values
        /\ actions' = actions_for(mode, values, num_threads)
        /\ peak_memory' = peak_for(mode, values, num_threads)
        /\ bars' = idle_bars(values)
    /\ cursor' = 0
    /\ comparisons' = 0
    /\ operations' = 0
    /\ current_memory' = 0
    /\ time_elapsed' = 0
    /\ step_timer' = 0
    /\ current_animation' = AnimationInfo_default
    /\ temp_array' = TempArrayState_default
    /\ multi_temp_arrays' = MultiTempArrayState_new(num_threads)
    /\ UNCHANGED <<mode, num_threads, merge_level>>
    /\ UNCHANGED fn_vars

\* clear_transient leaving the marks of earlier ticks in place
clear_transient_keeps_marks(bs) == bs

\* step: "Clear transient states"
clear_transient(bs) ==
    [k \in 1..Len(bs) |-> IF bs[k].state # "Sorted"
                          THEN [bs[k] EXCEPT !.state = "Idle"] ELSE bs[k]]

\* all_sorted leaving every Bar's state as it is
all_sorted_marks_none(bs) == bs

\* step, Done: every Bar becomes Sorted
all_sorted(bs) == [k \in 1..Len(bs) |-> [bs[k] EXCEPT !.state = "Sorted"]]

\* The mark colour of an action: the task's colour in Parallel mode
mark_state(sequential_state, thread_id) ==
    IF mode = "Parallel" THEN from_thread_id(thread_id) ELSE sequential_state

\* bars_after with Write storing at the action's scratch slot (temp_idx)
\* instead of its target index i
bars_after_write_at_slot(bs, a) ==
    CASE a.kind = "Compare" ->
             mark(mark(bs, a.i, mark_state("Compare", a.thread_id)),
                  a.j, mark_state("Compare", a.thread_id))
      [] a.kind = "Swap" ->
             mark(mark(swap(bs, a.i, a.j), a.i, mark_state("Swap", a.thread_id)),
                  a.j, mark_state("Swap", a.thread_id))
      [] a.kind = "TempPush" -> mark(bs, a.i, mark_state("Source", a.thread_id))
      [] a.kind = "Write" ->
             IF a.temp_idx < Len(bs)
             THEN [bs EXCEPT ![a.temp_idx + 1] =
                                 [value |-> a.value,
                                  state |-> mark_state("Swap", a.thread_id)]]
             ELSE bs
      [] a.kind = "Done" -> all_sorted(bs)
      [] OTHER -> bs

\* The Bars with a fault: a Write marks its target but does not store the value
bars_after_write_marks_only(bs, a) ==
    CASE a.kind = "Compare" ->
             mark(mark(bs, a.i, mark_state("Compare", a.thread_id)),
                  a.j, mark_state("Compare", a.thread_id))
      [] a.kind = "Swap" ->
             mark(mark(swap(bs, a.i, a.j), a.i, mark_state("Swap", a.thread_id)),
                  a.j, mark_state("Swap", a.thread_id))
      [] a.kind = "TempPush" -> mark(bs, a.i, mark_state("Source", a.thread_id))
      [] a.kind = "Write" -> mark(bs, a.i, mark_state("Swap", a.thread_id))
      [] a.kind = "Done" -> all_sorted(bs)
      [] OTHER -> bs

\* step, match action.kind: the Bars after the action
bars_after(bs, a) ==
    CASE a.kind = "Compare" ->
             mark(mark(bs, a.i, mark_state("Compare", a.thread_id)),
                  a.j, mark_state("Compare", a.thread_id))
      [] a.kind = "Swap" ->
             mark(mark(swap(bs, a.i, a.j), a.i, mark_state("Swap", a.thread_id)),
                  a.j, mark_state("Swap", a.thread_id))
      [] a.kind = "TempPush" -> mark(bs, a.i, mark_state("Source", a.thread_id))
      [] a.kind = "Write" ->
             IF a.i < Len(bs)
             THEN [bs EXCEPT ![a.i + 1] = [value |-> a.value,
                                           state |-> mark_state("Swap", a.thread_id)]]
             ELSE bs
      [] a.kind = "Done" -> all_sorted(bs)
      [] OTHER -> bs

\* The single TempRegion with a fault: a Write removes the newest value
temp_array_after_pops_newest(t, a) ==
    CASE a.kind = "TempPush" /\ mode # "Parallel" ->
             [t EXCEPT !.values = Append(@, a.value)]
      [] a.kind = "Write" /\ mode # "Parallel" /\ Len(t.values) > 0 ->
             [t EXCEPT !.values = SubSeq(@, 1, Len(@) - 1)]
      [] a.kind = "TempClear" /\ mode # "Parallel" -> [t EXCEPT !.values = <<>>]
      [] a.kind = "Done" -> [t EXCEPT !.values = <<>>]
      [] OTHER -> t

\* step: the single TempRegion after the action
temp_array_after(t, a) ==
    CASE a.kind = "TempPush" /\ mode # "Parallel" ->
             [t EXCEPT !.values = Append(@, a.value)]
      [] a.kind = "Write" /\ mode # "Parallel" /\ Len(t.values) > 0 ->
             [t EXCEPT !.values = Tail(@)]
      [] a.kind = "TempClear" /\ mode # "Parallel" -> [t EXCEPT !.values = <<>>]
      [] a.kind = "Done" -> [t EXCEPT !.values = <<>>]
      [] OTHER -> t

\* The per-task TempRegions with a fault: a Write removes nothing
multi_temp_arrays_after_write_keeps(m, a) ==
    CASE a.kind = "TempPush" /\ mode = "Parallel" /\ a.thread_id < Len(m.arrays) ->
             [m EXCEPT !.arrays[a.thread_id + 1].values = Append(@, a.value)]
      [] a.kind = "TempClear" /\ mode = "Parallel" /\ a.thread_id < Len(m.arrays) ->
             [m EXCEPT !.arrays[a.thread_id + 1].values = <<>>]
      [] a.kind = "Done" -> clear_all(m)
      [] OTHER -> m

\* step: the per-task TempRegions after the action (arrays.get_mut(thread_id))
multi_temp_arrays_after(m, a) ==
    CASE a.kind = "TempPush" /\ mode = "Parallel" /\ a.thread_id < Len(m.arrays) ->
             [m EXCEPT !.arrays[a.thread_id + 1].values = Append(@, a.value)]
      [] a.kind = "Write" /\ mode = "Parallel" /\ a.thread_id < Len(m.arrays)
            /\ Len(m.arrays[a.thread_id + 1].values) > 0 ->
             [m EXCEPT !.arrays[a.thread_id + 1].values = Tail(@)]
      [] a.kind = "TempClear" /\ mode = "Parallel" /\ a.thread_id < Len(m.arrays) ->
             [m EXCEPT !.arrays[a.thread_id + 1].values = <<>>]
      [] a.kind = "Done" -> clear_all(m)
      [] OTHER -> m

\* current_animation with a fault: the kinds other than TempPush and Write
\* leave the animation as it was
animation_after_stays_active(anim, a) ==
    CASE a.kind = "TempPush" ->
             [active |-> TRUE, source_idx |-> a.i, target_idx |-> a.temp_idx,
              source_height |-> <<a.value, max_value>>, is_temp_push |-> TRUE,
              temp_target_idx |-> a.temp_idx, thread_id |-> a.thread_id]
      [] a.kind = "Write" ->
             [active |-> TRUE, source_idx |-> a.temp_idx, target_idx |-> a.i,
              source_height |-> <<a.value, max_value>>, is_temp_push |-> FALSE,
              temp_target_idx |-> a.temp_idx, thread_id |-> a.thread_id]
      [] OTHER -> anim

\* step: current_animation after the action
animation_after(anim, a) ==
    CASE a.kind = "TempPush" ->
             [active |-> TRUE, source_idx |-> a.i, target_idx |-> a.temp_idx,
              source_height |-> <<a.value, max_value>>, is_temp_push |-> TRUE,
              temp_target_idx |-> a.temp_idx, thread_id |-> a.thread_id]
      [] a.kind = "Write" ->
             [active |-> TRUE, source_idx |-> a.temp_idx, target_idx |-> a.i,
              source_height |-> <<a.value, max_value>>, is_temp_push |-> FALSE,
              temp_target_idx |-> a.temp_idx, thread_id |-> a.thread_id]
      [] OTHER -> [anim EXCEPT !.active = FALSE]

\* current_memory with a fault: the carried memory field is taken in both modes
current_memory_after_carried(a) ==
    CASE a.kind = "Done" -> 0
      [] OTHER -> a.memory

\* step: "Update current memory usage", then the kind's own assignment
current_memory_after(a) ==
    CASE a.kind = "Done" -> 0
      [] a.kind = "TempPush" /\ mode = "Parallel" ->
             total_memory(multi_temp_arrays_after(multi_temp_arrays, a))
      [] mode = "Parallel" -> total_memory(multi_temp_arrays)
      [] OTHER -> a.memory

\* step, TempPush in Parallel mode: peak follows the live sum
peak_memory_after(a) ==
    IF a.kind = "TempPush" /\ mode = "Parallel"
          /\ current_memory_after(a) > peak_memory
    THEN current_memory_after(a)
    ELSE peak_memory

\* apply_action counting only Swaps as operations
apply_action_writes_uncounted(a) ==
    /\ (a.kind = "Swap" => a.i < Len(bars) /\ a.j < Len(bars))
    /\ bars' = bars_after(clear_transient(bars), a)
    /\ comparisons' = IF a.kind = "Compare" THEN comparisons + 1 ELSE comparisons
    /\ operations' = IF a.kind = "Swap" THEN operations + 1 ELSE operations
    /\ current_memory' = current_memory_after(a)
    /\ peak_memory' = peak_memory_after(a)
    /\ current_animation' = animation_after(current_animation, a)
    /\ temp_array' = temp_array_after(temp_array, a)
    /\ multi_temp_arrays' = multi_temp_arrays_after(multi_temp_arrays, a)
    /\ merge_level' = IF a.kind = "MergePhase" THEN a.value ELSE merge_level
    /\ cursor' = cursor + 1

\* step: "Process exactly one action", the action at the cursor. bars.swap(i, j)
\* panics on an index out of range: the tick has no successor state then.
apply_action(a) ==
    /\ (a.kind = "Swap" => a.i < Len(bars) /\ a.j < Len(bars))
    /\ bars' = bars_after(clear_transient(bars), a)
    /\ comparisons' = IF a.kind = "Compare" THEN comparisons + 1 ELSE comparisons
    /\ operations' = IF a.kind \in {"Swap", "Write"} THEN operations + 1 ELSE operations
    /\ current_memory' = current_memory_after(a)
    /\ peak_memory' = peak_memory_after(a)
    /\ current_animation' = animation_after(current_animation, a)
    /\ temp_array' = temp_array_after(temp_array, a)
    /\ multi_temp_arrays' = multi_temp_arrays_after(multi_temp_arrays, a)
    /\ merge_level' = IF a.kind = "MergePhase" THEN a.value ELSE merge_level
    /\ cursor' = cursor + 1

\* step carrying the overshoot of the interval into the next accumulation
step_keeps_overshoot(dt) ==
    /\ IF cursor >= Len(actions)
       THEN /\ bars' = all_sorted(bars)
            /\ UNCHANGED <<cursor, comparisons, operations, current_memory, peak_memory,
                           time_elapsed, step_timer, current_animation, temp_array,
                           multi_temp_arrays, merge_level>>
       ELSE /\ time_elapsed' = time_elapsed + dt
            /\ IF step_timer + dt < STEP_DELAY
               THEN /\ step_timer' = step_timer + dt
                    /\ UNCHANGED <<bars, cursor, comparisons, operations, current_memory,
                                   peak_memory, current_animation, temp_array,
                                   multi_temp_arrays, merge_level>>
               ELSE /\ step_timer' = step_timer + dt - STEP_DELAY
                    /\ apply_action(actions[cursor + 1])
    /\ UNCHANGED <<actions, max_value, mode, num_threads, initial_values>>
    /\ UNCHANGED fn_vars

\* step clearing the transient marks before the interval is reached
step_clears_marks_early(dt) ==
    /\ IF cursor >= Len(actions)
       THEN /\ bars' = all_sorted(bars)
            /\ UNCHANGED <<cursor, comparisons, operations, current_memory, peak_memory,
                           time_elapsed, step_timer, current_animation, temp_array,
                           multi_temp_arrays, merge_level>>
       ELSE /\ time_elapsed' = time_elapsed + dt
            /\ IF step_timer + dt < STEP_DELAY
               THEN /\ step_timer' = step_timer + dt
                    /\ bars' = clear_transient(bars)
                    /\ UNCHANGED <<cursor, comparisons, operations, current_memory,
                                   peak_memory, current_animation, temp_array,
                                   multi_temp_arrays, merge_level>>
               ELSE /\ step_timer' = 0
                    /\ apply_action(actions[cursor + 1])
    /\ UNCHANGED <<actions, max_value, mode, num_threads, initial_values>>
    /\ UNCHANGED fn_vars

\* step accumulating elapsed time after the end of the log
step_counts_time_after_end(dt) ==
    /\ IF cursor >= Len(actions)
       THEN /\ bars' = all_sorted(bars)
            /\ time_elapsed' = time_elapsed + dt
            /\ UNCHANGED <<cursor, comparisons, operations, current_memory, peak_memory,
                           step_timer, current_animation, temp_array,
                           multi_temp_arrays, merge_level>>
       ELSE /\ time_elapsed' = time_elapsed + dt
            /\ IF step_timer + dt < STEP_DELAY
               THEN /\ step_timer' = step_timer + dt
                    /\ UNCHANGED <<bars, cursor, comparisons, operations, current_memory,
                                   peak_memory, current_animation, temp_array,
                                   multi_temp_arrays, merge_level>>
               ELSE /\ step_timer' = 0
                    /\ apply_action(actions[cursor + 1])
    /\ UNCHANGED <<actions, max_value, mode, num_threads, initial_values>>
    /\ UNCHANGED fn_vars

\* step with a fault: the last action of the log is never applied
step_stops_before_last(dt) ==
    /\ IF cursor >= Len(actions)
       THEN /\ bars' = all_sorted(bars)
            /\ UNCHANGED <<cursor, comparisons, operations, current_memory, peak_memory,
                           time_elapsed, step_timer, current_animation, temp_array,
                           multi_temp_arrays, merge_level>>
       ELSE IF cursor + 1 >= Len(actions)
            THEN UNCHANGED <<bars, cursor, comparisons, operations, current_memory,
                             peak_memory, time_elapsed, step_timer, current_animation,
                             temp_array, multi_temp_arrays, merge_level>>
            ELSE /\ time_elapsed' = time_elapsed + dt
                 /\ IF step_timer + dt < STEP_DELAY
                    THEN /\ step_timer' = step_timer + dt
                         /\ UNCHANGED <<bars, cursor, comparisons, operations,
                                        current_memory, peak_memory, current_animation,
                                        temp_array, multi_temp_arrays, merge_level>>
                    ELSE /\ step_timer' = 0
                         /\ apply_action(actions[cursor + 1])
    /\ UNCHANGED <<actions, max_value, mode, num_threads, initial_values>>
    /\ UNCHANGED fn_vars

\* Engine::step(dt)
step(dt) ==
    /\ IF cursor >= Len(actions)
       THEN /\ bars' = all_sorted(bars)
            /\ UNCHANGED <<cursor, comparisons, operations, current_memory, peak_memory,
                           time_elapsed, step_timer, current_animation, temp_array,
                           multi_temp_arrays, merge_level>>
       ELSE /\ time_elapsed' = time_elapsed + dt
            /\ IF step_timer + dt < STEP_DELAY
               THEN /\ step_timer' = step_timer + dt
                    /\ UNCHANGED <<bars, cursor, comparisons, operations, current_memory,
                                   peak_memory, current_animation, temp_array,
                                   multi_temp_arrays, merge_level>>
               ELSE /\ step_timer' = 0
                    /\ apply_action(actions[cursor + 1])
    /\ UNCHANGED <<actions, max_value, mode, num_threads, initial_values>>
    /\ UNCHANGED fn_vars

Next ==
    \/ \E dt \in Deltas : step(dt)
    \/ \E m \in SortMode : set_mode(m)
    \/ reset

Spec == Init /\ [][Next]_vars

\* ------------------------------------------------- the pure functions, called
\* Each generator and the interleaver is called once on drawn arguments:
\* fn_call names the function, fn_result holds what it returned.

\* A list of up to MaxLogs logs; the p-th action of log k carries
\* thread_id = k and temp_idx = p, so every action is told apart.
TaggedLog(k, len) == [p \in 1..len |-> Action("Compare", 0, 0, 0, 0, p - 1, k - 1)]
LogLists ==
    UNION {{[k \in 1..n |-> TaggedLog(k, lens[k])] : lens \in [1..n -> 0..MaxLogLen]} :
           n \in 0..MaxLogs}

InitFn ==
    /\ engine_new(<<>>)
    /\ fn_call = "none"
    /\ fn_threads = 0
    /\ fn_result = <<>>
    /\ \/ fn_values \in Inputs \cup Scenarios /\ fn_logs = <<>>
       \/ fn_values = <<>> /\ fn_logs \in LogLists

call_bubble_sort_actions ==
    /\ fn_call = "none"
    /\ fn_call' = "bubble"
    /\ fn_result' = bubble_sort_actions(fn_values)
    /\ UNCHANGED <<fn_values, fn_threads, fn_logs, engine_vars>>

call_merge_sort_actions ==
    /\ fn_call = "none"
    /\ fn_call' = "merge"
    /\ fn_result' = merge_sort_actions(fn_values)
    /\ UNCHANGED <<fn_values, fn_threads, fn_logs, engine_vars>>

call_parallel_merge_sort_actions(requested_threads) ==
    /\ fn_call = "none"
    /\ fn_call' = "parallel"
    /\ fn_threads' = requested_threads
    /\ fn_result' = parallel_merge_sort_actions(fn_values, requested_threads)
    /\ UNCHANGED <<fn_values, fn_logs, engine_vars>>

call_interleave_actions ==
    /\ fn_call = "none"
    /\ fn_call' = "interleave"
    /\ fn_result' = interleave_actions(fn_logs)
    /\ UNCHANGED <<fn_values, fn_threads, fn_logs, engine_vars>>

NextFn ==
    \/ call_bubble_sort_actions
    \/ call_merge_sort_actions
    \/ \E t \in 0..NUM_THREADS : call_parallel_merge_sort_actions(t)
    \/ call_interleave_actions

SpecFn == InitFn /\ [][NextFn]_vars

\* ------------------------------------------------ step on an arbitrary log
\* Engine::step reads whatever log the Engine holds. Here the Engine holds a
\* log that no generator need have returned: actions whose Bar index or task
\* id is out of range, and Writes with nothing pushed before them.
FaultValues == <<2, 1>>

FaultyActions ==
    {Action(kind, i, 1, 2, 0, 0, thread_id) :
        kind \in {"Compare", "Swap", "TempPush", "Write"},
        i \in {0, Len(FaultValues)},
        thread_id \in {0, NUM_THREADS}}
    \cup {Action("TempClear", 0, 0, 0, 0, 0, 0), DoneAction}

FaultyLogs == UNION {[1..n -> FaultyActions] : n \in 0..MaxFaultLen}

\* The Engine's fields as new and set_mode leave them, except for the log
InitLog ==
    /\ initial_values = FaultValues
    /\ max_value = max_of_values(FaultValues)
    /\ mode \in SortMode
    /\ num_threads = NUM_THREADS
    /\ actions \in FaultyLogs
    /\ peak_memory = max_memory(actions)
    /\ bars = idle_bars(FaultValues)
    /\ cursor = 0
    /\ comparisons = 0
    /\ operations = 0
    /\ current_memory = 0
    /\ time_elapsed = 0
    /\ step_timer = 0
    /\ current_animation = AnimationInfo_default
    /\ temp_array = TempArrayState_default
    /\ multi_temp_arrays = MultiTempArrayState_new(NUM_THREADS)
    /\ merge_level = 0
    /\ fn_idle

NextLog == \E dt \in Deltas : step(dt)

SpecLog == InitLog /\ [][NextLog]_vars

\* ------------------------------------------------------ ticks and nothing else
\* The Engine at the start of a replay in either mode (Engine::new, then
\* set_mode), ticked for ever by the host's frame loop, which calls step on
\* every frame; no reset and no further set_mode.
InitTicks ==
    /\ \E values \in EngineInputs : \E m \in SortMode :
           /\ initial_values = values
           /\ max_value = max_of_values(values)
           /\ mode = m
           /\ actions = actions_for(m, values, NUM_THREADS)
           /\ peak_memory = peak_for(m, values, NUM_THREADS)
           /\ bars = idle_bars(values)
    /\ num_threads = NUM_THREADS
    /\ cursor = 0
    /\ comparisons = 0
    /\ operations = 0
    /\ current_memory = 0
    /\ time_elapsed = 0
    /\ step_timer = 0
    /\ current_animation = AnimationInfo_default
    /\ temp_array = TempArrayState_default
    /\ multi_temp_arrays = MultiTempArrayState_new(NUM_THREADS)
    /\ merge_level = 0
    /\ fn_idle

NextTicks == \E dt \in Deltas : step(dt)

SpecTicks == InitTicks /\ [][NextTicks]_vars /\ WF_vars(NextTicks)

\* ---------------------------------------------------------------- vocabulary
\* Replay of a log on plain values, as the claims state it: Swap exchanges
\* positions i and j, Write stores the carried value at i, every other kind
\* leaves the values alone.
Exchange(vals, i, j) == [vals EXCEPT ![i + 1] = vals[j + 1], ![j + 1] = vals[i + 1]]

ApplyToValues(vals, a) ==
    CASE a.kind = "Swap" -> Exchange(vals, a.i, a.j)
      [] a.kind = "Write" -> [vals EXCEPT ![a.i + 1] = a.value]
      [] OTHER -> vals

\* The values after log[from .. to] is applied in order
RECURSIVE ReplayRange(_, _, _, _)
ReplayRange(log, vals, from, to) ==
    IF from > to THEN vals
    ELSE ReplayRange(log, ApplyToValues(vals, log[from]), from + 1, to)

Replay(log, vals) == ReplayRange(log, vals, 1, Len(log))

IsSorted(vals) == \A k \in 1..(Len(vals) - 1) : vals[k] <= vals[k + 1]

\* The multiset of a sequence's elements
BagOfSeq(vals) ==
    [v \in {vals[k] : k \in 1..Len(vals)} |->
        Cardinality({k \in 1..Len(vals) : vals[k] = v})]

IsPermutation(a, b) == Len(a) = Len(b) /\ BagOfSeq(a) = BagOfSeq(b)

CountKind(log, kind) == Cardinality({k \in 1..Len(log) : log[k].kind = kind})

BarValues(bs) == [k \in 1..Len(bs) |-> bs[k].value]

\* ===================================================================== claims

\* C1: for every generator (bubble, sequential merge, parallel merge with any
\* task count) and every input, applying the whole returned log in order to
\* a copy of the input yields a non-descending permutation of the input.
C1_ReplaySorts ==
    fn_call \in {"bubble", "merge", "parallel"} =>
        LET r == Replay(fn_result, fn_values)
        IN IsSorted(r) /\ IsPermutation(r, fn_values)

\* C1 witness: a parallel log of two tasks has sorted an unsorted input of
\* full length.
C1_Witness ==
    /\ fn_call = "parallel"
    /\ fn_threads = 2
    /\ Len(fn_values) = MaxLen
    /\ ~IsSorted(fn_values)
    /\ IsSorted(Replay(fn_result, fn_values))

\* C4: every log of merge_sort_actions and of parallel_merge_sort_actions holds
\* exactly one Done action, which is its last element; for an empty input the
\* log is exactly [Done].
C4_MergeLogEndsInOneDone ==
    fn_call \in {"merge", "parallel"} =>
        /\ Len(fn_result) >= 1
        /\ fn_result[Len(fn_result)].kind = "Done"
        /\ CountKind(fn_result, "Done") = 1
        /\ (Len(fn_values) = 0 =>
               Len(fn_result) = 1 /\ fn_result[1].kind = "Done")

\* C4 witness: a sequential merge log of a full-length input, longer than its
\* Done, has been returned.
C4_Witness ==
    /\ fn_call = "merge"
    /\ Len(fn_values) = MaxLen
    /\ Len(fn_result) > 1
    /\ fn_result[Len(fn_result)].kind = "Done"

\* C5 (as claimed): every log of bubble_sort_actions holds exactly one Done
\* action, at its end, and for an empty input the log is exactly [Done].
C5_BubbleLogEndsInOneDone ==
    fn_call = "bubble" =>
        /\ Len(fn_result) >= 1
        /\ fn_result[Len(fn_result)].kind = "Done"
        /\ CountKind(fn_result, "Done") = 1
        /\ (Len(fn_values) = 0 =>
               Len(fn_result) = 1 /\ fn_result[1].kind = "Done")

\* The actions of the output that came from log k (0-based tag k)
FromLog(out, k) == SelectSeq(out, LAMBDA a : a.thread_id = k)

RECURSIVE SumOfLens(_, _)
SumOfLens(logs, k) ==
    IF k > Len(logs) THEN 0 ELSE Len(logs[k]) + SumOfLens(logs, k + 1)

\* C6: the output of interleave_actions holds every action of every input
\* log exactly once (its length is the sum of the input lengths), and the
\* actions of each input log appear in it in that log's own order.
C6_InterleaveKeepsEveryLog ==
    fn_call = "interleave" =>
        /\ Len(fn_result) = SumOfLens(fn_logs, 1)
        /\ \A k \in 1..Len(fn_logs) : FromLog(fn_result, k - 1) = fn_logs[k]

\* C6 witness: three logs of different lengths, one of them empty, have been
\* interleaved.
C6_Witness ==
    /\ fn_call = "interleave"
    /\ Len(fn_logs) = 3
    /\ Len(fn_logs[1]) = 1
    /\ Len(fn_logs[2]) = 0
    /\ Len(fn_logs[3]) = 3
    /\ Len(fn_result) = 4

\* The values held in all TempRegions: the single one, then the per-task ones
RECURSIVE ConcatValues(_, _)
ConcatValues(arrays, k) ==
    IF k > Len(arrays) THEN <<>>
    ELSE arrays[k].values \o ConcatValues(arrays, k + 1)

TempValues == temp_array.values \o ConcatValues(multi_temp_arrays.arrays, 1)

CountOf(vals, v) == Cardinality({k \in 1..Len(vals) : vals[k] = v})

\* C2 (as claimed): at every cursor position the multiset of all Bar values
\* together with all values held in the TempRegions equals the multiset of
\* the initial values.
C2_Conservation ==
    BagOfSeq(BarValues(bars) \o TempValues) = BagOfSeq(initial_values)

\* C2 (amended): at every cursor position no initial value is lost: each
\* value occurs among the Bar values and the TempRegion values together at
\* least as often as among the initial values (a TempPush copies, so a pushed
\* value is held twice until written back); and whenever every TempRegion is
\* empty the multiset of the Bar values equals that of the initial values.
C2_NoValueLost ==
    /\ \A v \in DrawValues :
           CountOf(BarValues(bars) \o TempValues, v) >= CountOf(initial_values, v)
    /\ (TempValues = <<>> => IsPermutation(BarValues(bars), initial_values))

\* C2 witness: in the middle of a write-back, a Bar already overwritten and
\* values still waiting in a TempRegion, the Bars alone no longer a
\* permutation of the initial values.
C2_Witness ==
    /\ cursor > 0
    /\ cursor < Len(actions)
    /\ actions[cursor].kind = "Write"
    /\ TempValues # <<>>
    /\ ~IsPermutation(BarValues(bars), initial_values)

\* C3: when the cursor equals the log length the Bar values are the initial
\* values in non-descending order, identical to replaying the log on a copy
\* of the input, every Bar is Sorted, current_memory is 0, and the single
\* TempRegion and every per-task TempRegion is empty.
C3_FinalState ==
    cursor = Len(actions) =>
        /\ IsSorted(BarValues(bars))
        /\ IsPermutation(BarValues(bars), initial_values)
        /\ BarValues(bars) = Replay(actions, initial_values)
        /\ \A k \in 1..Len(bars) : bars[k].state = "Sorted"
        /\ current_memory = 0
        /\ temp_array.values = <<>>
        /\ \A t \in 1..Len(multi_temp_arrays.arrays) :
               multi_temp_arrays.arrays[t].values = <<>>

\* C3 witness: a Parallel replay of an unsorted input of full length has been
\* ticked to the end of its log.
C3_Witness ==
    /\ mode = "Parallel"
    /\ Len(initial_values) = MaxLen
    /\ ~IsSorted(initial_values)
    /\ Len(actions) > 1
    /\ cursor = Len(actions)
    /\ IsSorted(BarValues(bars))

\* A step that is a tick: the cursor advanced, or time was accumulated, or
\* the replay is over and the cursor stayed.
Ticked ==
    \/ cursor' > cursor
    \/ time_elapsed' > time_elapsed
    \/ (cursor = Len(actions) /\ cursor' = cursor /\ actions' = actions)

C8_PeakMemoryMonotone ==
    /\ [](peak_memory >= current_memory)
    /\ [][Ticked => peak_memory' >= peak_memory]_vars

\* C8 witness: a Parallel replay in which several TempRegions hold values at
\* once, the live sum below the peak.
C8_Witness ==
    /\ mode = "Parallel"
    /\ cursor > 0
    /\ current_memory > ELEMENT_SIZE
    /\ Cardinality({t \in 1..Len(multi_temp_arrays.arrays) :
                      multi_temp_arrays.arrays[t].values # <<>>}) >= 2
    /\ peak_memory >= current_memory

\* C9 (as claimed): 0 <= cursor <= log length in every state; a tick changes
\* the cursor by 0 or +1; and whenever the cursor moves back it is set to 0
\* together with all other replay state: counters, memory, times and merge
\* level 0, every TempRegion empty, no animation, the Bars Idle and holding
\* the stored initial values, the log the mode's log for them.
C9_CursorMovesBackOnlyToFreshState ==
    /\ [](0 <= cursor /\ cursor <= Len(actions))
    /\ [][Ticked => cursor' \in {cursor, cursor + 1}]_vars
    /\ [][cursor' < cursor =>
            /\ cursor' = 0
            /\ comparisons' = 0
            /\ operations' = 0
            /\ current_memory' = 0
            /\ time_elapsed' = 0
            /\ step_timer' = 0
            /\ merge_level' = 0
            /\ temp_array' = TempArrayState_default
            /\ multi_temp_arrays' = MultiTempArrayState_new(num_threads')
            /\ current_animation'.active = FALSE
            /\ bars' = idle_bars(initial_values')
            /\ actions' = generate(mode', initial_values', num_threads')]_vars

\* C10: a tick before the end of the log whose delta brings the accumulated
\* time to or above the step interval advances the cursor by exactly one,
\* resets the accumulator to zero and changes the Bar values by exactly the
\* action at the old cursor, counting at most one comparison or operation;
\* so in every state the Bar values are the initial values after
\* log[1..cursor] applied in order.
C10_ThresholdTickAppliesOneAction ==
    /\ [][(/\ cursor < Len(actions)
           /\ time_elapsed' > time_elapsed
           /\ step_timer + (time_elapsed' - time_elapsed) >= STEP_DELAY) =>
            /\ cursor' = cursor + 1
            /\ step_timer' = 0
            /\ actions' = actions
            /\ BarValues(bars') = ApplyToValues(BarValues(bars), actions[cursor + 1])
            /\ comparisons' + operations' <= comparisons + operations + 1]_vars
    /\ [](BarValues(bars) = ReplayRange(actions, initial_values, 1, cursor))

\* C10 witness: every action so far was applied by a tick that brought the
\* accumulator to two whole step intervals (half an interval, then one and a
\* half), the last of them a Write that changed the Bar values.
C10_Witness ==
    /\ cursor >= 1
    /\ actions[cursor].kind = "Write"
    /\ step_timer = 0
    /\ time_elapsed = 2 * STEP_DELAY * cursor
    /\ BarValues(bars) # initial_values

\* C11: a tick whose delta leaves the accumulated time below the step
\* interval applies no action: the cursor, the Bars (values and states),
\* comparisons, operations, current_memory, peak_memory, merge_level, every
\* TempRegion and the animation are unchanged; only step_timer and
\* time_elapsed grow, by the delta.
C11_BelowThresholdAppliesNothing ==
    [][(/\ time_elapsed' > time_elapsed
        /\ step_timer + (time_elapsed' - time_elapsed) < STEP_DELAY) =>
         /\ step_timer' = step_timer + (time_elapsed' - time_elapsed)
         /\ UNCHANGED <<cursor, bars, comparisons, operations, current_memory,
                        peak_memory, merge_level, temp_array, multi_temp_arrays,
                        current_animation, actions>>]_vars

\* C11 witness: in the middle of a write-back, marks on the Bars and values
\* in a TempRegion, a tick of half an interval has been accumulated.
C11_Witness ==
    /\ cursor >= 1
    /\ cursor < Len(actions)
    /\ actions[cursor].kind = "Write"
    /\ step_timer = 1
    /\ TempValues # <<>>
    /\ \E k \in 1..Len(bars) : bars[k].state # "Idle"

\* C12: once the cursor equals the log length every Bar is Sorted, and a
\* further tick (a step that keeps the cursor there) leaves the cursor, the
\* Bars, all counters including time_elapsed, and all TempRegions unchanged.
C12_DoneIsTerminal ==
    /\ [](cursor = Len(actions) => \A k \in 1..Len(bars) : bars[k].state = "Sorted")
    /\ [][(cursor = Len(actions) /\ cursor' = cursor) =>
            /\ \A k \in 1..Len(bars') : bars'[k].state = "Sorted"
            /\ UNCHANGED <<bars, comparisons, operations, current_memory,
                           peak_memory, time_elapsed, step_timer, merge_level,
                           temp_array, multi_temp_arrays, actions>>]_vars

\* C12 witness: a Sequential replay of a full-length input is at the end of
\* its log, after comparisons and writes, every Bar Sorted.
C12_Witness ==
    /\ mode = "Sequential"
    /\ Len(bars) = MaxLen
    /\ cursor = Len(actions)
    /\ comparisons > 0
    /\ operations > 0
    /\ \A k \in 1..Len(bars) : bars[k].state = "Sorted"

\* The Bar indices an action carries for marking
CarriedIndices(a) ==
    CASE a.kind \in {"Compare", "Swap"} -> {a.i, a.j}
      [] a.kind \in {"TempPush", "Write"} -> {a.i}
      [] OTHER -> {}

\* C13: after a tick that applied an action other than Done (and until the
\* next action is applied) every Bar whose state is neither Idle nor Sorted is
\* at an index carried by that action: marks of earlier ticks do not persist.
C13_OnlyLastActionMarks ==
    (cursor >= 1 /\ actions[cursor].kind # "Done") =>
        \A k \in 1..Len(bars) :
            bars[k].state \notin {"Idle", "Sorted"} =>
                (k - 1) \in CarriedIndices(actions[cursor])

\* C13 witness: a TempClear has just been applied after a Write, and no Bar
\* carries a mark.
C13_Witness ==
    /\ cursor >= 2
    /\ actions[cursor].kind = "TempClear"
    /\ actions[cursor - 1].kind = "Write"
    /\ Len(bars) >= 2
    /\ \A k \in 1..Len(bars) : bars[k].state = "Idle"

\* C14: a step that changes the mode (set_mode(m), m not the current mode),
\* from any state, leaves: the log of mode m's generator for the stored
\* initial values, the Bars holding those values and all Idle, cursor,
\* comparisons, operations, current_memory, time_elapsed and merge_level 0,
\* every TempRegion empty, the animation inactive, and the stored initial
\* values unchanged.
C14_ModeChangeResetsReplay ==
    [][mode' # mode =>
         /\ initial_values' = initial_values
         /\ actions' = actions_for(mode', initial_values, num_threads)
         /\ bars' = idle_bars(initial_values)
         /\ cursor' = 0
         /\ comparisons' = 0
         /\ operations' = 0
         /\ current_memory' = 0
         /\ time_elapsed' = 0
         /\ merge_level' = 0
         /\ temp_array'.values = <<>>
         /\ \A t \in 1..Len(multi_temp_arrays'.arrays) :
                multi_temp_arrays'.arrays[t].values = <<>>
         /\ current_animation'.active = FALSE]_vars

\* C14 witness: an Engine switched to Parallel mode stands at the start of
\* the parallel log of its unsorted full-length initial values, the Bars Idle
\* and holding those values.
C14_Witness ==
    /\ mode = "Parallel"
    /\ cursor = 0
    /\ time_elapsed = 0
    /\ merge_level = 0
    /\ Len(initial_values) = MaxLen
    /\ ~IsSorted(initial_values)
    /\ bars = idle_bars(initial_values)
    /\ actions = actions_for("Parallel", initial_values, num_threads)

\* C15 (as claimed): a step that keeps the mode and is not a tick (reset())
\* leaves the Bars holding freshly drawn values, all Idle, those values
\* stored as the initial values, the log the current mode's log for them,
\* cursor, comparisons, operations, current_memory, time_elapsed and
\* merge_level 0, every TempRegion empty and the animation inactive.
C15_ResetIsFull ==
    [][(mode' = mode /\ ~Ticked) =>
         /\ Len(initial_values') = Len(bars)
         /\ \A k \in 1..Len(initial_values') : initial_values'[k] \in DrawValues
         /\ bars' = idle_bars(initial_values')
         /\ actions' = actions_for(mode, initial_values', num_threads)
         /\ cursor' = 0
         /\ comparisons' = 0
         /\ operations' = 0
         /\ current_memory' = 0
         /\ time_elapsed' = 0
         /\ merge_level' = 0
         /\ temp_array'.values = <<>>
         /\ \A t \in 1..Len(multi_temp_arrays'.arrays) :
                multi_temp_arrays'.arrays[t].values = <<>>
         /\ current_animation'.active = FALSE]_vars

\* C16: set_mode(m) with m the current mode changes nothing of the Engine:
\* log, cursor, Bars, counters, time_elapsed, step_timer, TempRegions and
\* animation stay as they are.
C16_SameModeIsNoOp ==
    [][\A m \in SortMode : (m = mode /\ set_mode(m)) => UNCHANGED engine_vars]_vars

\* C16 witness: a Parallel replay in progress, values in a TempRegion and
\* time accumulated, on which set_mode(Parallel) can be called.
C16_Witness ==
    /\ mode = "Parallel"
    /\ cursor >= 1
    /\ cursor < Len(actions)
    /\ step_timer = 1
    /\ TempValues # <<>>
    /\ comparisons > 0

\* The action a tick has just applied: the cursor advanced over it
Applied(a) ==
    /\ cursor < Len(actions)
    /\ cursor' = cursor + 1
    /\ actions' = actions
    /\ a = actions[cursor + 1]

\* The TempRegion of the action's task exists and holds nothing
RegionEmpty(a) ==
    IF mode = "Parallel"
    THEN /\ a.thread_id < Len(multi_temp_arrays.arrays)
         /\ multi_temp_arrays.arrays[a.thread_id + 1].values = <<>>
    ELSE temp_array.values = <<>>

OutOfRange(a) ==
    \/ a.kind \in {"Compare", "Swap", "TempPush", "Write"} /\ a.i >= Len(bars)
    \/ a.kind \in {"Compare", "Swap"} /\ a.j >= Len(bars)
    \/ /\ mode = "Parallel"
       /\ a.kind \in {"TempPush", "Write"}
       /\ a.thread_id >= Len(multi_temp_arrays.arrays)

C19_SizeZeroIsRejected ==
    ~(Len(bars) = 0 /\ actions = <<DoneAction>> /\ cursor = Len(actions))

\* C20: at every point of a replay comparisons is the number of Compare
\* actions in log[0..cursor) and operations the number of Swap plus Write
\* actions in it; a tick that applies a MergePhase sets merge_level to the
\* carried value; a tick that applies a Compare, TempPush, TempClear or
\* MergePhase changes no Bar value.
C20_CountersFollowTheLog ==
    /\ [](/\ comparisons = CountKind(SubSeq(actions, 1, cursor), "Compare")
          /\ operations = CountKind(SubSeq(actions, 1, cursor), "Swap")
                          + CountKind(SubSeq(actions, 1, cursor), "Write"))
    /\ [][(cursor < Len(actions) /\ cursor' = cursor + 1 /\ actions' = actions) =>
            LET a == actions[cursor + 1]
            IN /\ (a.kind = "MergePhase" => merge_level' = a.value)
               /\ (a.kind \in {"Compare", "TempPush", "TempClear", "MergePhase"} =>
                      BarValues(bars') = BarValues(bars))]_vars

\* C20 witness: a Parallel replay past its second MergePhase, after
\* comparisons and writes, and not yet at the end of its log.
C20_Witness ==
    /\ mode = "Parallel"
    /\ cursor >= 1
    /\ cursor < Len(actions)
    /\ actions[cursor].kind = "MergePhase"
    /\ merge_level = 2
    /\ comparisons >= 1
    /\ operations >= 2

\* The positions of the TempClear actions of a log: each ends the segment of
\* one merge, which starts after the previous TempClear.
Clears(log) == {e \in 1..Len(log) : log[e].kind = "TempClear"}

SegmentStart(log, p) ==
    LET earlier == {q \in Clears(log) : q < p}
    IN IF earlier = {} THEN 1
       ELSE (CHOOSE q \in earlier : \A r \in earlier : r <= q) + 1

SegmentEnd(log, p) ==
    LET later == {q \in Clears(log) : q >= p}
    IN CHOOSE q \in later : \A r \in later : q <= r

OfKind(log, kind) == SelectSeq(log, LAMBDA a : a.kind = kind)

\* The segment log[s..e] is the log of one merge of the runs [left, mid) and
\* [mid, right) of the values before: heads compared while both runs have
\* one, the smaller head (the left one on ties) pushed after each Compare,
\* the remaining run drained, then the pushed values written back in push
\* order to left, left+1, ..., right-1, then the TempClear.
IsMergeSegment(seg, before) ==
    LET pushes == OfKind(seg, "TempPush")
        writes == OfKind(seg, "Write")
        len == Len(writes)
        left == writes[1].i
        right == left + len
        Pushed(p, lo, hi) ==
            Cardinality({q \in 1..(p - 1) : /\ seg[q].kind = "TempPush"
                                            /\ seg[q].i >= lo /\ seg[q].i < hi})
    IN /\ len >= 1
       /\ Len(pushes) = len
       /\ Len(seg) = Len(OfKind(seg, "Compare")) + 2 * len + 1
       /\ seg[Len(seg)].kind = "TempClear"
       /\ \A k \in 1..len : /\ writes[k].i = left + k - 1
                            /\ writes[k].value = pushes[k].value
       /\ \A p \in 1..Len(seg), q \in 1..Len(seg) :
              seg[p].kind = "Write" /\ seg[q].kind \in {"Compare", "TempPush"} => q < p
       /\ \E mid \in left..right :
              \A p \in 1..Len(seg) :
                  LET i == left + Pushed(p, left, mid)
                      j == mid + Pushed(p, mid, right)
                  IN /\ seg[p].kind = "Compare" =>
                            /\ i < mid /\ j < right
                            /\ seg[p].i = i /\ seg[p].j = j
                            /\ seg[p + 1].kind = "TempPush"
                            /\ seg[p + 1].i = IF before[i + 1] <= before[j + 1]
                                              THEN i ELSE j
                     /\ seg[p].kind = "TempPush" =>
                            /\ seg[p].value = before[seg[p].i + 1]
                            /\ (i < mid /\ j < right) <=>
                                   (p > 1 /\ seg[p - 1].kind = "Compare")
                            /\ i >= mid => seg[p].i = j /\ j < right
                            /\ j >= right => seg[p].i = i /\ i < mid

\* What the scenarios state of an action: kind, indices and carried value
Stated(a) == <<a.kind, a.i, a.j, a.value>>

\* C21: in a sequential merge log every merge of a run [left, right) is a
\* segment of (Compare, TempPush of the smaller head, the left head on ties)
\* pairs while both runs have a head, TempPushes draining the other run,
\* right-left pushes in all, then right-left Writes to left..right-1 carrying
\* the pushed values in push order, then one TempClear; the log ends with
\* Done after the last segment, and the log of [5,3] is exactly Compare(0,1),
\* TempPush(3), TempPush(5), Write(0,3), Write(1,5), TempClear, Done.
C21_MergeSegments ==
    fn_call = "merge" =>
        /\ \A e \in Clears(fn_result) :
               LET s == SegmentStart(fn_result, e)
               IN IsMergeSegment(SubSeq(fn_result, s, e),
                                 ReplayRange(fn_result, fn_values, 1, s - 1))
        /\ SegmentStart(fn_result, Len(fn_result)) = Len(fn_result)
        /\ (fn_values = <<5, 3>> =>
               [k \in 1..Len(fn_result) |-> Stated(fn_result[k])] =
                   << <<"Compare", 0, 1, 0>>, <<"TempPush", 1, 0, 3>>,
                      <<"TempPush", 0, 0, 5>>, <<"Write", 0, 0, 3>>,
                      <<"Write", 1, 0, 5>>, <<"TempClear", 0, 0, 0>>,
                      <<"Done", 0, 0, 0>> >>)

\* C21 witness: a sequential merge log of four values in which equal heads
\* were compared and the left one pushed, and a run was drained without
\* a Compare.
C21_Witness ==
    /\ fn_call = "merge"
    /\ Len(fn_values) = 4
    /\ Cardinality(Clears(fn_result)) = 3
    /\ \E p \in 1..(Len(fn_result) - 1) :
           LET v == ReplayRange(fn_result, fn_values, 1, p)
           IN /\ fn_result[p].kind = "Compare"
              /\ v[fn_result[p].i + 1] = v[fn_result[p].j + 1]
              /\ fn_result[p + 1].i = fn_result[p].i
    /\ \E p \in 2..Len(fn_result) :
           fn_result[p].kind = "TempPush" /\ fn_result[p - 1].kind = "TempPush"

\* The task count and chunk size of a parallel call, as the claims state them
TasksOf(n, requested) == Max(Min(requested, n), 1)
ChunkSizeOf(n, requested) ==
    (n + TasksOf(n, requested) - 1) \div TasksOf(n, requested)

\* The smallest r >= 0 with size * 2^r >= n
RoundsOf(size, n) ==
    CHOOSE r \in 0..n : /\ size * 2^r >= n
                        /\ \A q \in 0..(r - 1) : size * 2^q < n

MarkerValues(log) ==
    LET m == OfKind(log, "MergePhase") IN [k \in 1..Len(m) |-> m[k].value]

\* The number of MergePhase markers before position p: 0 in the chunk
\* sorting, r in round r
RoundAt(log, p) == Cardinality({q \in 1..(p - 1) : log[q].kind = "MergePhase"})

\* The Bar indices that round r merges: those of every pair of blocks of
\* size block whose second block is not empty
MergedInRound(n, block) ==
    {x \in 0..(n - 1) : (x \div (2 * block)) * 2 * block + block < n}

\* The markers of a parallel log of n values in chunks of size: values 1..R in
\* order; a merge of a run of len values reports memory 4 * len, so the
\* actions before the first marker are merges inside a chunk (len <= size)
\* and those after marker r are merges of two blocks of size * 2^(r-1), each
\* merged index written once in its round; every round has an action.
MarkersSplitRounds(log, n, size) ==
    LET rounds == RoundsOf(size, n)
    IN /\ MarkerValues(log) = [k \in 1..rounds |-> k]
       /\ \A p \in 1..(Len(log) - 1) :
              LET r == RoundAt(log, p)
              IN /\ log[p].kind = "MergePhase" => log[p + 1].kind \notin {"MergePhase", "Done"}
                 /\ log[p].kind # "MergePhase" /\ r = 0 =>
                        log[p].memory <= ELEMENT_SIZE * size
                 /\ log[p].kind # "MergePhase" /\ r >= 1 =>
                        /\ log[p].memory > ELEMENT_SIZE * size * 2^(r - 1)
                        /\ log[p].memory <= ELEMENT_SIZE * size * 2^r
       /\ \A r \in 1..rounds :
              \A x \in 0..(n - 1) :
                  Cardinality({p \in 1..Len(log) : /\ log[p].kind = "Write"
                                                   /\ log[p].i = x
                                                   /\ RoundAt(log, p) = r})
                      = IF x \in MergedInRound(n, size * 2^(r - 1)) THEN 1 ELSE 0

\* The scenario of eight values and four tasks (chunk size 2)
EightValues == <<8, 7, 6, 5, 4, 3, 2, 1>>
EightValuesFourTasks == parallel_merge_sort_actions(EightValues, 4)

\* C22: in a parallel merge log the MergePhase markers carry 1, 2, ..., R in
\* order, R the smallest r >= 0 with chunkSize * 2^r >= N; the chunk-sorting
\* actions precede the first marker, the merges of round r lie between marker
\* r and the next marker or the Done, and no round is empty. For eight values
\* and four tasks the markers are exactly 1, 2 and the log ends with Done.
C22_MergePhaseMarkers ==
    /\ (fn_call = "parallel" /\ Len(fn_values) >= 1 =>
           MarkersSplitRounds(fn_result, Len(fn_values),
                              ChunkSizeOf(Len(fn_values), fn_threads)))
    /\ MarkerValues(EightValuesFourTasks) = <<1, 2>>
    /\ MarkersSplitRounds(EightValuesFourTasks, 8, 2)
    /\ EightValuesFourTasks[Len(EightValuesFourTasks)].kind = "Done"

\* C22 witness: five values sorted by three tasks, chunks of two values:
\* chunk sorting, then two rounds
C22_Witness ==
    /\ fn_call = "parallel"
    /\ Len(fn_values) = 5
    /\ fn_threads = 3
    /\ MarkerValues(fn_result) = <<1, 2>>
    /\ fn_result[1].kind = "Compare"

\* The adjacent comparisons of a bubble sort of n values, by their lower
\* index: pass i compares the pairs at 0, 1, ..., n-2-i
RECURSIVE ComparedFrom(_, _)
ComparedFrom(n, i) ==
    IF i >= n THEN <<>> ELSE [j \in 1..(n - 1 - i) |-> j - 1] \o ComparedFrom(n, i + 1)

\* The number of pairs of positions whose values are strictly out of order
Inversions(vals) ==
    Cardinality({pair \in (1..Len(vals)) \X (1..Len(vals)) :
                    pair[1] < pair[2] /\ vals[pair[1]] > vals[pair[2]]})

\* C23: the bubble log holds a Compare(j, j+1) for every adjacent comparison
\* of every pass, in order; a Swap(j, j+1) follows a Compare immediately
\* exactly when the compared pair, in the values replayed so far, is strictly
\* out of order, and Swaps occur nowhere else; the number of Swaps is the
\* inversion count of the input (5 for [4,2,3,1], replayed to [1,2,3,4]).
C23_BubbleComparesAndSwaps ==
    fn_call = "bubble" =>
        LET compares == OfKind(fn_result, "Compare")
        IN /\ [k \in 1..Len(compares) |-> <<compares[k].i, compares[k].j>>] =
                  [k \in 1..Len(ComparedFrom(Len(fn_values), 0)) |->
                      <<ComparedFrom(Len(fn_values), 0)[k],
                        ComparedFrom(Len(fn_values), 0)[k] + 1>>]
           /\ \A p \in 1..Len(fn_result) :
                  /\ fn_result[p].kind = "Swap" =>
                         /\ p > 1
                         /\ fn_result[p - 1].kind = "Compare"
                         /\ fn_result[p - 1].i = fn_result[p].i
                         /\ fn_result[p - 1].j = fn_result[p].j
                  /\ fn_result[p].kind = "Compare" =>
                         LET v == ReplayRange(fn_result, fn_values, 1, p)
                         IN (p < Len(fn_result) /\ fn_result[p + 1].kind = "Swap") <=>
                                v[fn_result[p].i + 1] > v[fn_result[p].j + 1]
           /\ CountKind(fn_result, "Swap") = Inversions(fn_values)
           /\ (fn_values = <<4, 2, 3, 1>> =>
                  /\ CountKind(fn_result, "Swap") = 5
                  /\ Replay(fn_result, fn_values) = <<1, 2, 3, 4>>)

\* C23 witness: the bubble log of [4,2,3,1] with its five Swaps, and with a
\* Compare that no Swap follows
C23_Witness ==
    /\ fn_call = "bubble"
    /\ fn_values = <<4, 2, 3, 1>>
    /\ CountKind(fn_result, "Swap") = 5
    /\ \E p \in 1..(Len(fn_result) - 1) :
           fn_result[p].kind = "Compare" /\ fn_result[p + 1].kind # "Swap"

\* C24: for an input of at most one value the sequential merge generator
\* performs no merge: its log holds no Compare, TempPush, Write or TempClear
\* and is exactly [Done].
C24_ShortInputOnlyDone ==
    fn_call = "merge" /\ Len(fn_values) <= 1 =>
        /\ \A kind \in {"Compare", "TempPush", "Write", "TempClear"} :
               CountKind(fn_result, kind) = 0
        /\ [k \in 1..Len(fn_result) |-> Stated(fn_result[k])] = << <<"Done", 0, 0, 0>> >>

\* C24 witness: the sequential merge log of [7] has been returned
C24_Witness ==
    /\ fn_call = "merge"
    /\ fn_values = <<7>>
    /\ Len(fn_result) = 1

\* C25: the animation is active exactly when the last applied action was a
\* TempPush or a Write, and then it carries that action's Bar index, scratch
\* index and task id, with is_temp_push set exactly for a TempPush; after any
\* other kind, and with no action applied (after construction, reset or a
\* mode change), it is inactive.
C25_AnimationFollowsLastAction ==
    /\ cursor = 0 => ~current_animation.active
    /\ cursor >= 1 =>
           LET a == actions[cursor]
           IN /\ current_animation.active <=> a.kind \in {"TempPush", "Write"}
              /\ a.kind = "TempPush" =>
                     /\ current_animation.source_idx = a.i
                     /\ current_animation.target_idx = a.temp_idx
                     /\ current_animation.temp_target_idx = a.temp_idx
                     /\ current_animation.thread_id = a.thread_id
                     /\ current_animation.is_temp_push
              /\ a.kind = "Write" =>
                     /\ current_animation.source_idx = a.temp_idx
                     /\ current_animation.target_idx = a.i
                     /\ current_animation.thread_id = a.thread_id
                     /\ ~current_animation.is_temp_push

\* C25 witness: a Write of task 1 was the last action applied in Parallel
\* mode and the animation shows it.
C25_Witness ==
    /\ mode = "Parallel"
    /\ cursor >= 1
    /\ actions[cursor].kind = "Write"
    /\ actions[cursor].thread_id = 1
    /\ current_animation.active
    /\ current_animation.target_idx = actions[cursor].i
    /\ ~current_animation.is_temp_push

\* The r-th actions (r counted from 0) of the logs longer than r, in log order
Column(logs, r) ==
    LET longer == SelectSeq([k \in 1..Len(logs) |-> k], LAMBDA k : Len(logs[k]) > r)
    IN [c \in 1..Len(longer) |-> logs[longer[c]][r + 1]]

\* The round-robin schedule: the columns r, r+1, ... one after another
RECURSIVE RoundRobinFrom(_, _)
RoundRobinFrom(logs, r) ==
    IF \A k \in 1..Len(logs) : Len(logs[k]) <= r THEN <<>>
    ELSE Column(logs, r) \o RoundRobinFrom(logs, r + 1)

\* The number of actions of log k (tag k - 1) among the first m of the output
Consumed(out, k, m) == Cardinality({p \in 1..m : out[p].thread_id = k - 1})

\* C26: the output of interleave_actions is the round-robin schedule of its
\* input logs: for r = 0, 1, 2, ... the r-th action of every log longer than
\* r, in log order; so at every prefix of the output the numbers of actions
\* taken from two logs that both still have one differ by at most one.
C26_InterleaveIsRoundRobin ==
    fn_call = "interleave" =>
        /\ fn_result = RoundRobinFrom(fn_logs, 0)
        /\ \A m \in 0..Len(fn_result) :
               \A k1 \in 1..Len(fn_logs), k2 \in 1..Len(fn_logs) :
                   /\ Consumed(fn_result, k1, m) < Len(fn_logs[k1])
                   /\ Consumed(fn_result, k2, m) < Len(fn_logs[k2])
                   => Consumed(fn_result, k1, m) - Consumed(fn_result, k2, m) <= 1

\* C26 witness: logs of three, one and two actions have been interleaved; the
\* second pass skips the exhausted log.
C26_Witness ==
    /\ fn_call = "interleave"
    /\ Len(fn_logs) = 3
    /\ Len(fn_logs[1]) = 3 /\ Len(fn_logs[2]) = 1 /\ Len(fn_logs[3]) = 2
    /\ [p \in 1..Len(fn_result) |-> fn_result[p].thread_id] = <<0, 1, 2, 0, 2, 0>>

\* The values of the TempRegion of task t: the single region in Sequential mode
RegionOf(single, multi, t) ==
    IF mode = "Parallel" THEN multi.arrays[t + 1].values ELSE single.values

\* C27: every Write the Engine applies finds the TempRegion of its task (the
\* single one in Sequential mode) non-empty with the carried value as its
\* oldest value, removes exactly that value and leaves every other region as
\* it was, sets the value of the target Bar to the carried value and adds 1
\* to operations.
C27_WriteTakesOldest ==
    [][cursor < Len(actions) /\ cursor' = cursor + 1
           /\ actions[cursor + 1].kind = "Write" =>
       LET a == actions[cursor + 1]
           region == RegionOf(temp_array, multi_temp_arrays, a.thread_id)
       IN /\ region # <<>>
          /\ Head(region) = a.value
          /\ RegionOf(temp_array', multi_temp_arrays', a.thread_id) = Tail(region)
          /\ IF mode = "Parallel"
             THEN /\ temp_array' = temp_array
                  /\ \A t \in 1..Len(multi_temp_arrays.arrays) :
                         t # a.thread_id + 1 =>
                             multi_temp_arrays'.arrays[t] = multi_temp_arrays.arrays[t]
             ELSE multi_temp_arrays' = multi_temp_arrays
          /\ bars'[a.i + 1].value = a.value
          /\ operations' = operations + 1]_vars

\* C27 witness: in Parallel mode a Write of task 1 has been applied and has
\* left a younger value in the task's TempRegion.
C27_Witness ==
    /\ mode = "Parallel"
    /\ cursor >= 1
    /\ actions[cursor].kind = "Write"
    /\ actions[cursor].thread_id = 1
    /\ Len(multi_temp_arrays.arrays[2].values) = 1
    /\ bars[actions[cursor].i + 1].value = actions[cursor].value
    /\ operations >= 1

\* The run length of the merge that position p of a sequential log belongs
\* to: the number of Writes of its segment
RunLengthAt(log, p) ==
    Len(OfKind(SubSeq(log, SegmentStart(log, p), SegmentEnd(log, p)), "Write"))

\* C28: in a sequential merge log every Compare, TempPush, Write and
\* TempClear of a merge of run length L reports memory 4 * L, the Done
\* reports 0, and the largest reported memory, which the Engine's scan of
\* the log takes as peak_memory, is 4 * N for N >= 2 and 0 for N <= 1.
C28_SequentialMemoryIsRunLength ==
    fn_call = "merge" =>
        /\ \A p \in 1..Len(fn_result) :
               IF fn_result[p].kind = "Done"
               THEN fn_result[p].memory = 0
               ELSE fn_result[p].memory = ELEMENT_SIZE * RunLengthAt(fn_result, p)
        /\ max_memory(fn_result) =
               IF Len(fn_values) >= 2 THEN ELEMENT_SIZE * Len(fn_values) ELSE 0

\* C28 witness: the sequential merge log of five values reports 8 bytes in
\* a merge of two values, 12 in a merge of three and at most 20.
C28_Witness ==
    /\ fn_call = "merge"
    /\ Len(fn_values) = 5
    /\ \E p \in 1..Len(fn_result) : fn_result[p].memory = 2 * ELEMENT_SIZE
    /\ \E p \in 1..Len(fn_result) : fn_result[p].memory = 3 * ELEMENT_SIZE
    /\ max_memory(fn_result) = 5 * ELEMENT_SIZE

\* The chunk-sorting part of a parallel log: the actions before the first
\* MergePhase or Done
Phase1(log) ==
    LET p == CHOOSE q \in 1..Len(log) :
                 /\ log[q].kind \in {"MergePhase", "Done"}
                 /\ \A r \in 1..(q - 1) : log[r].kind \notin {"MergePhase", "Done"}
    IN SubSeq(log, 1, p - 1)

\* An action of a sequential log of a chunk, as task c emits it for the chunk
\* that starts at offset: Bar indices moved by offset, thread_id c
AsTask(a, offset, c) ==
    [a EXCEPT !.i = IF a.kind \in {"Compare", "TempPush", "Write"} THEN @ + offset ELSE @,
              !.j = IF a.kind = "Compare" THEN @ + offset ELSE @,
              !.thread_id = c]

\* The log of the sequential merge logic on values[start+1 .. end] (without
\* its Done), as task c emits it
ChunkLog(values, start, end, c) ==
    LET whole == merge_sort_actions(SubSeq(values, start + 1, end))
    IN [k \in 1..(Len(whole) - 1) |-> AsTask(whole[k], start, c)]

\* C29 (as claimed): a parallel call with R >= 1 on N >= 1 values uses
\* T = min(R, N) tasks and gives every task c of 0..T-1 one chunk, the chunks
\* being consecutive and of size ceil(N/T) except that the last may be
\* shorter, and sorts each chunk by the sequential merge logic.
C29_EveryTaskHasAChunk ==
    fn_call = "parallel" /\ fn_threads >= 1 /\ Len(fn_values) >= 1 =>
        LET n == Len(fn_values)
            tasks == Min(fn_threads, n)
            size == (n + tasks - 1) \div tasks
        IN \A c \in 0..(tasks - 1) :
               /\ c < tasks - 1 => (c + 1) * size <= n
               /\ c * size < n
               /\ FromLog(Phase1(fn_result), c) =
                      ChunkLog(fn_values, c * size, Min((c + 1) * size, n), c)

\* C29 (amended): a parallel call with R >= 1 on N >= 1 values uses
\* T = min(R, N) tasks and the chunk size S = ceil(N/T); the values are split
\* into ceil(N/S) consecutive chunks of size S, of which only the last may be
\* shorter, one for each of the tasks 0..ceil(N/S)-1 and each sorted by the
\* sequential merge logic; the tasks from ceil(N/S) on get no chunk and emit
\* nothing.
C29_ChunksOfTheFirstTasks ==
    fn_call = "parallel" /\ fn_threads >= 1 /\ Len(fn_values) >= 1 =>
        LET n == Len(fn_values)
            tasks == Min(fn_threads, n)
            size == (n + tasks - 1) \div tasks
            chunks == (n + size - 1) \div size
        IN /\ chunks <= tasks
           /\ \A c \in 0..(chunks - 1) :
                  /\ c < chunks - 1 => (c + 1) * size <= n
                  /\ c * size < n
                  /\ FromLog(Phase1(fn_result), c) =
                         ChunkLog(fn_values, c * size, Min((c + 1) * size, n), c)
           /\ \A k \in 1..Len(Phase1(fn_result)) :
                  Phase1(fn_result)[k].thread_id < chunks

\* C29 witness: five values and four requested tasks: chunks of two, two and
\* one value for the tasks 0, 1, 2 and none for task 3.
C29_Witness ==
    /\ fn_call = "parallel"
    /\ Len(fn_values) = 5
    /\ fn_threads = 4
    /\ FromLog(Phase1(fn_result), 0) # <<>>
    /\ FromLog(Phase1(fn_result), 1) # <<>>
    /\ FromLog(Phase1(fn_result), 3) = <<>>

\* C30: every action of the chunk-sorting part of a parallel log is a
\* Compare, TempPush, Write or TempClear whose Bar indices lie inside the
\* range [c * chunkSize, min((c+1) * chunkSize, N)) of the chunk of its task
\* c; a TempPush carries the value that the replay holds at its global
\* index, and when the chunk sorting is over the replayed values of every
\* chunk range are the sorted values of that range of the input.
C30_ChunkActionsAreGlobal ==
    fn_call = "parallel" /\ Len(fn_values) >= 1 =>
        LET n == Len(fn_values)
            size == ChunkSizeOf(n, fn_threads)
            first == Phase1(fn_result)
            InChunk(x, c) == c * size <= x /\ x < Min((c + 1) * size, n)
            sorted == ReplayRange(fn_result, fn_values, 1, Len(first))
        IN /\ \A p \in 1..Len(first) :
                  LET a == first[p]
                  IN /\ a.kind \in {"Compare", "TempPush", "Write", "TempClear"}
                     /\ a.kind \in {"Compare", "TempPush", "Write"} =>
                            InChunk(a.i, a.thread_id)
                     /\ a.kind = "Compare" => InChunk(a.j, a.thread_id)
                     /\ a.kind = "TempPush" =>
                            a.value = ReplayRange(fn_result, fn_values, 1, p - 1)[a.i + 1]
           /\ \A c \in 0..(TasksOf(n, fn_threads) - 1) :
                  c * size < n =>
                      LET lo == c * size + 1
                          hi == Min((c + 1) * size, n)
                      IN /\ IsSorted(SubSeq(sorted, lo, hi))
                         /\ IsPermutation(SubSeq(sorted, lo, hi),
                                          SubSeq(fn_values, lo, hi))

\* C30 witness: five values sorted by two tasks: task 1 has pushed from
\* global index 3 and written to global index 4 while sorting its chunk [3,5).
C30_Witness ==
    /\ fn_call = "parallel"
    /\ Len(fn_values) = 5
    /\ fn_threads = 2
    /\ \E p \in 1..Len(Phase1(fn_result)) :
           /\ fn_result[p].kind = "TempPush"
           /\ fn_result[p].thread_id = 1
           /\ fn_result[p].i = 3
    /\ \E p \in 1..Len(Phase1(fn_result)) :
           /\ fn_result[p].kind = "Write"
           /\ fn_result[p].thread_id = 1
           /\ fn_result[p].i = 4

\* The position of the r-th MergePhase marker of a parallel log, and of the
\* marker or Done that ends round r
MarkerAt(log, r) ==
    CHOOSE p \in 1..Len(log) : log[p].kind = "MergePhase" /\ RoundAt(log, p) = r - 1

RoundEndAt(log, r) ==
    CHOOSE p \in 1..Len(log) : /\ log[p].kind \in {"MergePhase", "Done"}
                               /\ RoundAt(log, p) = r

RoundActions(log, r) == SubSeq(log, MarkerAt(log, r) + 1, RoundEndAt(log, r) - 1)

\* The number of merge tasks of a round of n values with runs of size block:
\* one for every left that is a multiple of 2 * block with left + block < n
TasksInRound(n, block) ==
    Cardinality({x \in 0..(n - 1) : x % (2 * block) = 0 /\ x + block < n})

\* The actions of round r of a parallel log of values, sorted by tasks tasks
\* in chunks of size: task m of the round, tagged m mod tasks, merges the
\* sorted runs [left, left + block) and [left + block, min(left + 2 * block, n))
\* with left = m * 2 * block, in place; the task logs are interleaved.
IsTournamentRound(log, values, r, size, tasks) ==
    LET n == Len(values)
        block == size * 2^(r - 1)
        acts == RoundActions(log, r)
        before == ReplayRange(log, values, 1, MarkerAt(log, r))
        count == TasksInRound(n, block)
        TaskLog(m) == FromLog(acts, m % tasks)
    IN /\ \A k \in 1..Len(acts) : \E m \in 0..(count - 1) : acts[k].thread_id = m % tasks
       /\ \A m \in 0..(count - 1) :
              LET left == m * 2 * block
                  right == Min(left + 2 * block, n)
              IN /\ IsSorted(SubSeq(before, left + 1, left + block))
                 /\ IsSorted(SubSeq(before, left + block + 1, right))
                 /\ IsMergeSegment(TaskLog(m), before)
                 /\ Stated(TaskLog(m)[1]) = <<"Compare", left, left + block, 0>>
                 /\ OfKind(TaskLog(m), "Write")[1].i = left
                 /\ Len(OfKind(TaskLog(m), "Write")) = right - left
       /\ acts = RoundRobinFrom([m \in 1..count |-> TaskLog(m - 1)], 0)

\* C31: in the tournament round with run size step one merge task is
\* generated for every left that is a multiple of 2 * step with
\* left + step < N; it merges the sorted runs [left, left + step) and
\* [left + step, min(left + 2 * step, N)) in place, the m-th task of the round
\* is tagged m mod T, the round's task logs are interleaved, and step doubles
\* from the chunk size until it reaches N.
C31_TournamentRounds ==
    fn_call = "parallel" /\ Len(fn_values) >= 1 =>
        LET n == Len(fn_values)
            size == ChunkSizeOf(n, fn_threads)
        IN /\ Len(MarkerValues(fn_result)) = RoundsOf(size, n)
           /\ \A r \in 1..RoundsOf(size, n) :
                  IsTournamentRound(fn_result, fn_values, r, size,
                                    TasksOf(n, fn_threads))

\* C31 witness: five values and five tasks: three rounds, the first with the
\* two merge tasks 0 and 1, the last merging [0,4) with [4,5).
C31_Witness ==
    /\ fn_call = "parallel"
    /\ Len(fn_values) = 5
    /\ fn_threads = 5
    /\ MarkerValues(fn_result) = <<1, 2, 3>>
    /\ \E k \in 1..Len(RoundActions(fn_result, 1)) :
           RoundActions(fn_result, 1)[k].thread_id = 1
    /\ Stated(RoundActions(fn_result, 3)[1]) = <<"Compare", 0, 4, 0>>

C33_TempPushMemory ==
    [][cursor < Len(actions) /\ cursor' = cursor + 1
           /\ actions[cursor + 1].kind = "TempPush" =>
       LET a == actions[cursor + 1]
       IN IF mode = "Sequential"
          THEN /\ temp_array'.values = Append(temp_array.values, a.value)
               /\ current_memory' = a.memory
          ELSE /\ multi_temp_arrays'.arrays[a.thread_id + 1].values =
                      Append(multi_temp_arrays.arrays[a.thread_id + 1].values, a.value)
               /\ current_memory' = 4 * Len(ConcatValues(multi_temp_arrays'.arrays, 1))
               /\ peak_memory' = Max(peak_memory, current_memory')]_vars

\* C33 witness: in Parallel mode a TempPush has been applied while another
\* task's TempRegion held a value: current_memory is the live sum, not the
\* carried field.
C33_Witness ==
    /\ mode = "Parallel"
    /\ cursor >= 1
    /\ actions[cursor].kind = "TempPush"
    /\ actions[cursor].thread_id = 1
    /\ multi_temp_arrays.arrays[1].values # <<>>
    /\ current_memory = 4 * Len(ConcatValues(multi_temp_arrays.arrays, 1))
    /\ current_memory # actions[cursor].memory

\* C34: the bubble log of N values holds exactly N settle markers (kind
\* Done), the k-th (k = 0..N-1) right after the comparisons of pass k and
\* carrying the index N-1-k and the value of that index in the sorted result,
\* and no Compare or Swap after a marker carries an index at or above the
\* marker's index.
C34_BubbleSettleMarkers ==
    fn_call = "bubble" =>
        LET n == Len(fn_values)
            markers == {p \in 1..Len(fn_result) : fn_result[p].kind = "Done"}
            sorted == Replay(fn_result, fn_values)
        IN /\ Cardinality(markers) = n
           /\ \A p \in markers :
                  LET k == Cardinality({q \in markers : q < p})
                      compared == Cardinality({q \in 1..(p - 1) :
                                                  fn_result[q].kind = "Compare"})
                  IN /\ fn_result[p].i = n - 1 - k
                     /\ fn_result[p].j = n - 1 - k
                     /\ fn_result[p].value = sorted[n - k]
                     /\ compared = Len(ComparedFrom(n, 0)) - Len(ComparedFrom(n, k + 1))
                     /\ \A q \in (p + 1)..Len(fn_result) :
                            fn_result[q].kind \in {"Compare", "Swap"} =>
                                /\ fn_result[q].i < fn_result[p].i
                                /\ fn_result[q].j < fn_result[p].i

\* C34 witness: the bubble log of five values whose largest is not last has
\* five markers, the first carrying index 4 and that largest value.
C34_Witness ==
    /\ fn_call = "bubble"
    /\ Len(fn_values) = 5
    /\ CountKind(fn_result, "Done") = 5
    /\ \E p \in 1..Len(fn_result) :
           /\ fn_result[p].kind = "Done"
           /\ fn_result[p].i = 4
           /\ fn_result[p].value # fn_values[5]
           /\ \A k \in 1..5 : fn_values[k] <= fn_result[p].value

\* C35: whenever the next action of the Engine's log is a TempPush, in
\* either mode, the value it carries is the value that the Bar at its source
\* index holds: at every read the Bars agree with the generator's array.
C35_TempPushReadsTheBar ==
    cursor < Len(actions) /\ actions[cursor + 1].kind = "TempPush" =>
        /\ actions[cursor + 1].i < Len(bars)
        /\ bars[actions[cursor + 1].i + 1].value = actions[cursor + 1].value

\* C35 witness: in Parallel mode a TempPush has been applied whose source
\* Bar held a value written there by an earlier merge, not its initial value.
C35_Witness ==
    /\ mode = "Parallel"
    /\ cursor >= 1
    /\ actions[cursor].kind = "TempPush"
    /\ bars[actions[cursor].i + 1].value = actions[cursor].value
    /\ initial_values[actions[cursor].i + 1] # actions[cursor].value
    /\ multi_temp_arrays.arrays[actions[cursor].thread_id + 1].values # <<>>

\* The Bar indices an action reads or writes
Touched(a) ==
    CASE a.kind \in {"Compare", "Swap"} -> {a.i, a.j}
      [] a.kind \in {"TempPush", "Write"} -> {a.i}
      [] OTHER -> {}

\* The task ids of a group of interleaved logs, and the indices a task touches
TaskIds(group) == {group[p].thread_id : p \in 1..Len(group)}

TouchedBy(group, t) ==
    UNION {Touched(group[p]) : p \in {q \in 1..Len(group) : group[q].thread_id = t}}

\* No index touched by one task lies between two indices touched by another
RangesDisjoint(group) ==
    \A t \in TaskIds(group) : \A u \in TaskIds(group) \ {t} :
        \A lo \in TouchedBy(group, t) : \A hi \in TouchedBy(group, t) :
            \A x \in TouchedBy(group, u) : ~(lo <= x /\ x <= hi)

\* The number of actions of kind by task t among the first p of the group
CountBy(group, p, t, kind) ==
    Cardinality({q \in 1..p : group[q].thread_id = t /\ group[q].kind = kind})

\* A region per task id never mixes two merges: when a task's TempClear ends
\* a merge all its pushes have been written back, and at no position has a
\* task written more than it pushed
RegionsHoldOneMerge(group) ==
    \A p \in 1..Len(group) :
        LET t == group[p].thread_id
        IN /\ CountBy(group, p, t, "Write") <= CountBy(group, p, t, "TempPush")
           /\ group[p].kind = "TempClear" =>
                  CountBy(group, p, t, "Write") = CountBy(group, p, t, "TempPush")

\* No Bar is read into a region by one task and written by another
NoReadOfForeignWrite(group) ==
    \A p \in 1..Len(group) : \A q \in 1..Len(group) :
        /\ group[p].kind = "TempPush"
        /\ group[q].kind = "Write"
        /\ group[p].thread_id # group[q].thread_id
        => group[p].i # group[q].i

\* C36: in the chunk-sorting part of a parallel log and in every tournament
\* round, each log has a task id of its own (as many ids as non-empty logs),
\* the tasks touch pairwise disjoint ranges of Bar indices, so that a region
\* per task id holds the pushes of one merge at a time and no Bar is read
\* by one task while another task of the group writes it.
C36_TasksOfAGroupAreApart ==
    fn_call = "parallel" /\ Len(fn_values) >= 1 =>
        LET n == Len(fn_values)
            size == ChunkSizeOf(n, fn_threads)
            first == Phase1(fn_result)
            sorting == {c \in 0..(TasksOf(n, fn_threads) - 1) :
                           Min((c + 1) * size, n) - c * size >= 2}
        IN /\ TaskIds(first) = sorting
           /\ RangesDisjoint(first)
           /\ RegionsHoldOneMerge(first)
           /\ NoReadOfForeignWrite(first)
           /\ \A r \in 1..RoundsOf(size, n) :
                  LET round == RoundActions(fn_result, r)
                  IN /\ Cardinality(TaskIds(round)) = TasksInRound(n, size * 2^(r - 1))
                     /\ RangesDisjoint(round)
                     /\ RegionsHoldOneMerge(round)
                     /\ NoReadOfForeignWrite(round)

\* C36 witness: four values sorted by two tasks: the tasks 0 and 1 sort the
\* chunks [0,2) and [2,4) in the same group, and one task merges them.
C36_Witness ==
    /\ fn_call = "parallel"
    /\ fn_values = <<4, 2, 3, 1>>
    /\ fn_threads = 2
    /\ TaskIds(Phase1(fn_result)) = {0, 1}
    /\ TouchedBy(Phase1(fn_result), 0) = {0, 1}
    /\ TouchedBy(Phase1(fn_result), 1) = {2, 3}
    /\ TouchedBy(RoundActions(fn_result, 1), 0) = {0, 1, 2, 3}

\* The log of the merges that use the region of task t: the whole log in
\* Sequential mode, the actions tagged t in Parallel mode; and how many of
\* its actions have been applied
RegionLog(t) == IF mode = "Parallel" THEN FromLog(actions, t) ELSE actions

AppliedOf(t) ==
    IF mode = "Parallel"
    THEN Cardinality({q \in 1..cursor : actions[q].thread_id = t})
    ELSE cursor

\* C37: when the next action is a TempClear the TempRegion of its task is
\* already empty, when it is the final Done every TempRegion is already
\* empty, and a TempRegion that holds values holds at most as many as the
\* run length (the number of Writes) of the merge its task is in.
C37_PushesAndWritesBalance ==
    /\ cursor < Len(actions) /\ actions[cursor + 1].kind = "TempClear" =>
           RegionOf(temp_array, multi_temp_arrays, actions[cursor + 1].thread_id) = <<>>
    /\ cursor < Len(actions) /\ actions[cursor + 1].kind = "Done" =>
           /\ temp_array.values = <<>>
           /\ \A t \in 0..(num_threads - 1) : multi_temp_arrays.arrays[t + 1].values = <<>>
    /\ \A t \in 0..(num_threads - 1) :
           RegionOf(temp_array, multi_temp_arrays, t) # <<>> =>
               /\ AppliedOf(t) >= 1
               /\ Len(RegionOf(temp_array, multi_temp_arrays, t)) <=
                      RunLengthAt(RegionLog(t), AppliedOf(t))

\* C37 witness: in Parallel mode the TempClear of task 1 is next, the task
\* has pushed and written back two values, and its region is empty again.
C37_Witness ==
    /\ mode = "Parallel"
    /\ cursor < Len(actions)
    /\ actions[cursor + 1].kind = "TempClear"
    /\ actions[cursor + 1].thread_id = 1
    /\ multi_temp_arrays.arrays[2].values = <<>>
    /\ Cardinality({q \in 1..cursor : actions[q].thread_id = 1
                                        /\ actions[q].kind = "TempPush"}) = 2
    /\ Cardinality({q \in 1..cursor : actions[q].thread_id = 1
                                        /\ actions[q].kind = "Write"}) = 2

\* Every TempRegion of the Engine, the single one and the per-task ones, is empty
AllRegionsEmpty ==
    /\ temp_array.values = <<>>
    /\ \A t \in 1..Len(multi_temp_arrays.arrays) : multi_temp_arrays.arrays[t].values = <<>>

\* C38: the TempRegions are all empty at cursor 0, after the TempClear of
\* each merge in Sequential mode, before each MergePhase marker and after
\* Done; whenever they are all empty the Bar values are a permutation of the
\* initial values; and at every cursor position every Bar value is one of
\* the initial values.
C38_BarsHoldTheInitialValues ==
    /\ cursor = 0 => AllRegionsEmpty
    /\ mode = "Sequential" /\ cursor >= 1 /\ actions[cursor].kind = "TempClear" =>
           AllRegionsEmpty
    /\ cursor < Len(actions) /\ actions[cursor + 1].kind = "MergePhase" => AllRegionsEmpty
    /\ cursor >= 1 /\ actions[cursor].kind = "Done" => AllRegionsEmpty
    /\ AllRegionsEmpty =>
           \A v \in DrawValues :
               Cardinality({k \in 1..Len(bars) : bars[k].value = v}) =
                   Cardinality({k \in 1..Len(initial_values) : initial_values[k] = v})
    /\ \A k \in 1..Len(bars) :
           /\ bars[k].value \in DrawValues
           /\ \E q \in 1..Len(initial_values) : initial_values[q] = bars[k].value

\* C38 witness: between two tournament rounds of the Parallel replay: all
\* regions empty, the Bars rearranged by the first round and a permutation of
\* the initial values.
C38_Witness ==
    /\ mode = "Parallel"
    /\ cursor >= 1
    /\ cursor < Len(actions)
    /\ actions[cursor + 1].kind = "MergePhase"
    /\ actions[cursor + 1].value = 2
    /\ AllRegionsEmpty
    /\ BarValues(bars) # initial_values
    /\ IsPermutation(BarValues(bars), initial_values)

\* C39: a parallel call with the task count 1 returns the very log that
\* merge_sort_actions returns on the same values, with no MergePhase marker
\* and every thread_id 0; and on a single value a parallel call returns
\* [Done] for every task count.
C39_OneTaskIsSequential ==
    fn_call = "parallel" =>
        /\ fn_threads = 1 =>
               /\ Len(fn_result) = Len(merge_sort_actions(fn_values))
               /\ \A p \in 1..Len(fn_result) :
                      /\ fn_result[p] = merge_sort_actions(fn_values)[p]
                      /\ fn_result[p].kind # "MergePhase"
                      /\ fn_result[p].thread_id = 0
        /\ Len(fn_values) = 1 => fn_result = <<DoneAction>>

\* C39 witness: five values sorted by one task: a log of three merges and
\* more, every action that of the sequential generator.
C39_Witness ==
    /\ fn_call = "parallel"
    /\ fn_threads = 1
    /\ Len(fn_values) = 5
    /\ Cardinality(Clears(fn_result)) = 4
    /\ fn_result = merge_sort_actions(fn_values)
    /\ fn_result[Len(fn_result) - 1].memory = ELEMENT_SIZE * 5

\* The Done state: the whole log applied and every Bar Sorted
ReplayDone ==
    /\ cursor = Len(actions)
    /\ \A k \in 1..Len(bars) : bars[k].state = "Sorted"

\* C40: with ticks only, each of a positive delta, the Engine reaches the
\* Done state (cursor = log length, all Bars Sorted); the cursor moves only
\* by one, by applying the action it points at, and never beyond the log, so
\* each action is applied exactly once; and every tick whose delta is at
\* least the step interval applies one action, so that log-length such ticks
\* reach the Done state.
C40_TicksReachDone ==
    /\ <>ReplayDone
    /\ [][/\ cursor' = cursor \/ cursor' = cursor + 1
          /\ cursor' <= Len(actions)
          /\ cursor' = cursor + 1 => apply_action(actions[cursor + 1])
          /\ \A dt \in Deltas :
                 dt >= STEP_DELAY /\ cursor < Len(actions) /\ step(dt) =>
                     /\ cursor' = cursor + 1
                     /\ time_elapsed' = time_elapsed + dt
          /\ time_elapsed = 3 * cursor /\ time_elapsed' = time_elapsed + 3 =>
                 cursor' = cursor + 1]_vars

\* C40 witness: the Done state reached in Parallel mode on four values by
\* ticks of one and a half intervals only: as many ticks as the log has
\* actions.
C40_Witness ==
    /\ mode = "Parallel"
    /\ Len(bars) = 4
    /\ ReplayDone
    /\ Len(actions) > 10
    /\ time_elapsed = 3 * Len(actions)
    /\ comparisons + operations > 0

====
